---------------------------- MODULE Spec2Model ----------------------------
(***************************************************************************)
(* A model of sqlgen's PostgreSQL renderer (src/sqlgen/postgres/to_sql.cpp).*)
(* The renderer is a pure function from a statement tree to SQL text.  The  *)
(* trees are records carrying a "tag" (the active variant); an optional is  *)
(* a sequence of length 0 (std::nullopt) or 1; SQL text is a TLA+ string.   *)
(***************************************************************************)
EXTENDS Integers, Sequences, FiniteSets, TLC

\* one call of a renderer: caller's position, renderer, tree, returned text
VARIABLES pc, fn, arg, ret

\* the recursion of one rendering: call stack, visits per node, greatest stack
\* height, the tree rendered
VARIABLES frames, visits, deepest, root

\* callers rendering side by side: each caller's call, the string streams of
\* the calls in progress, the (tree, text) pairs returned so far
VARIABLES caller, stream, log

render_vars == <<pc, fn, arg, ret>>

walk_vars == <<frames, visits, deepest, root>>

call_vars == <<caller, stream, log>>

vars == <<pc, fn, arg, ret, frames, visits, deepest, root, caller, stream, log>>

(***************************************************************************)
(* Bounds of the checked input domain.                                      *)
(***************************************************************************)
MaxCols == 2

MaxLogicalNodes == 2

MaxArithmeticNodes == 2

MaxCallers == 2

(***************************************************************************)
(* Optionals.                                                               *)
(***************************************************************************)
Nothing == <<>>

Some(v) == <<v>>

HasValue(o) == Len(o) > 0

ValueOf(o) == o[1]

(***************************************************************************)
(* String utilities (sqlgen/internal/strings/strings.hpp).                  *)
(***************************************************************************)
\* a join that has no text for an empty list
RECURSIVE join_rejecting_empty(_, _)
join_rejecting_empty(sep, strs) ==
  IF Len(strs) = 0 THEN "<empty list>"
  ELSE IF Len(strs) = 1 THEN strs[1]
  ELSE strs[1] \o sep \o join_rejecting_empty(sep, Tail(strs))

RECURSIVE join(_, _)
join(sep, strs) ==
  IF Len(strs) = 0 THEN ""
  ELSE IF Len(strs) = 1 THEN strs[1]
  ELSE strs[1] \o sep \o join(sep, Tail(strs))

RECURSIVE replace_all(_, _, _)
replace_all(str, from, to) ==
  IF Len(str) < Len(from) \/ Len(from) = 0 THEN str
  ELSE IF SubSeq(str, 1, Len(from)) = from
       THEN to \o replace_all(SubSeq(str, Len(from) + 1, Len(str)), from, to)
       ELSE SubSeq(str, 1, 1) \o replace_all(SubSeq(str, 2, Len(str)), from, to)

LowerCase == "abcdefghijklmnopqrstuvwxyz"

UpperCase == "ABCDEFGHIJKLMNOPQRSTUVWXYZ"

to_upper_char(c) ==
  IF \E i \in 1..Len(LowerCase) : SubSeq(LowerCase, i, i) = c
  THEN LET i == CHOOSE i \in 1..Len(LowerCase) : SubSeq(LowerCase, i, i) = c
       IN  SubSeq(UpperCase, i, i)
  ELSE c

RECURSIVE to_upper(_)
to_upper(str) ==
  IF Len(str) = 0 THEN ""
  ELSE to_upper_char(SubSeq(str, 1, 1)) \o to_upper(SubSeq(str, 2, Len(str)))

\* rfl::enum_to_string: an enumerator is modelled by its name
enum_to_string(e) == e

\* std::to_string of an integer
to_string(n) == ToString(n)

(***************************************************************************)
(* Quoting helpers.                                                         *)
(***************************************************************************)
wrap_in_quotes(name) == "\"" \o name \o "\""

wrap_in_single_quotes(name) == "'" \o name \o "'"

escape_single_quote(str) == replace_all(str, "'", "''")

(***************************************************************************)
(* Type renderer.                                                           *)
(***************************************************************************)
\* type_to_sql with each unsigned kind mapped to the next wider SQL type
type_to_sql_unsigned_widened(t) ==
  CASE t.tag = "Boolean" -> "BOOLEAN"
    [] t.tag = "Dynamic" -> t.type_name
    [] t.tag \in {"Int8", "Int16", "UInt8"} -> "SMALLINT"
    [] t.tag \in {"Int32", "UInt16"} -> "INTEGER"
    [] t.tag \in {"Int64", "UInt32", "UInt64"} -> "BIGINT"
    [] t.tag = "Enum" -> t.name
    [] t.tag \in {"Float32", "Float64"} -> "NUMERIC"
    [] t.tag = "Text" -> "TEXT"
    [] t.tag = "VarChar" -> "VARCHAR(" \o to_string(t.length) \o ")"
    [] t.tag = "JSON" -> "JSONB"
    [] t.tag = "Date" -> "DATE"
    [] t.tag = "Timestamp" -> "TIMESTAMP"
    [] t.tag = "TimestampWithTZ" -> "TIMESTAMP WITH TIME ZONE"
    [] t.tag = "Unknown" -> "TEXT"

type_to_sql(t) ==
  CASE t.tag = "Boolean" -> "BOOLEAN"
    [] t.tag = "Dynamic" -> t.type_name
    [] t.tag \in {"Int8", "Int16", "UInt8", "UInt16"} -> "SMALLINT"
    [] t.tag \in {"Int32", "UInt32"} -> "INTEGER"
    [] t.tag \in {"Int64", "UInt64"} -> "BIGINT"
    [] t.tag = "Enum" -> t.name
    [] t.tag \in {"Float32", "Float64"} -> "NUMERIC"
    [] t.tag = "Text" -> "TEXT"
    [] t.tag = "VarChar" -> "VARCHAR(" \o to_string(t.length) \o ")"
    [] t.tag = "JSON" -> "JSONB"
    [] t.tag = "Date" -> "DATE"
    [] t.tag = "Timestamp" -> "TIMESTAMP"
    [] t.tag = "TimestampWithTZ" -> "TIMESTAMP WITH TIME ZONE"
    [] t.tag = "Unknown" -> "TEXT"

properties_to_sql(p) ==
  (IF p.auto_incr THEN " GENERATED ALWAYS AS IDENTITY" ELSE "")
  \o (IF p.nullable THEN "" ELSE " NOT NULL")
  \o (IF p.unique THEN " UNIQUE" ELSE "")
  \o (IF ~HasValue(p.foreign_key_reference) THEN ""
      ELSE LET ref == ValueOf(p.foreign_key_reference)
           IN  " REFERENCES " \o wrap_in_quotes(ref.table) \o "("
               \o wrap_in_quotes(ref.column) \o ")")

(***************************************************************************)
(* Value and column renderer.                                               *)
(***************************************************************************)
handle_value(v) ==
  CASE v.tag = "String" -> "'" \o escape_single_quote(v.val) \o "'"
    [] v.tag = "Duration" ->
         "INTERVAL '" \o to_string(v.val) \o " " \o enum_to_string(v.unit) \o "'"
    [] v.tag = "Timestamp" ->
         "to_timestamp(" \o to_string(v.seconds_since_unix) \o ")"
    \* std::to_string(bool) promotes to int; std::to_string(double) prints
    \* six decimals (Float values of the model are whole numbers)
    [] v.tag = "Boolean" -> IF v.val THEN "1" ELSE "0"
    [] v.tag = "Float" -> to_string(v.val) \o ".000000"
    [] v.tag = "Integer" -> to_string(v.val)

column_or_value_to_sql(c) ==
  IF c.tag = "Column"
  THEN IF HasValue(c.alias)
       THEN ValueOf(c.alias) \o "." \o wrap_in_quotes(c.name)
       ELSE wrap_in_quotes(c.name)
  ELSE handle_value(c.val)

(***************************************************************************)
(* Expression compiler: Operation and Aggregation.                          *)
(***************************************************************************)
RECURSIVE operation_to_sql(_)
RECURSIVE aggregation_to_sql(_)

\* mutant: DISTINCT follows the flag alone, also when there is no val
aggregation_to_sql_distinct_star(aggregation) ==
  LET agg == aggregation.val IN
  CASE agg.tag = "Avg" -> "AVG(" \o operation_to_sql(agg.val) \o ")"
    [] agg.tag = "Count" ->
         LET val == (IF agg.distinct THEN "DISTINCT " ELSE "")
                    \o (IF HasValue(agg.val)
                        THEN column_or_value_to_sql(ValueOf(agg.val))
                        ELSE "*")
         IN  "COUNT(" \o val \o ")"
    [] agg.tag = "Max" -> "MAX(" \o operation_to_sql(agg.val) \o ")"
    [] agg.tag = "Min" -> "MIN(" \o operation_to_sql(agg.val) \o ")"
    [] agg.tag = "Sum" -> "SUM(" \o operation_to_sql(agg.val) \o ")"

aggregation_to_sql(aggregation) ==
  LET agg == aggregation.val IN
  CASE agg.tag = "Avg" -> "AVG(" \o operation_to_sql(agg.val) \o ")"
    [] agg.tag = "Count" ->
         LET val == (IF HasValue(agg.val) /\ agg.distinct THEN "DISTINCT " ELSE "")
                    \o (IF HasValue(agg.val)
                        THEN column_or_value_to_sql(ValueOf(agg.val))
                        ELSE "*")
         IN  "COUNT(" \o val \o ")"
    [] agg.tag = "Max" -> "MAX(" \o operation_to_sql(agg.val) \o ")"
    [] agg.tag = "Min" -> "MIN(" \o operation_to_sql(agg.val) \o ")"
    [] agg.tag = "Sum" -> "SUM(" \o operation_to_sql(agg.val) \o ")"

\* an infix operator between operands that are not parenthesized
infix_to_sql_bare(op1, symbol, op2) == op1 \o " " \o symbol \o " " \o op2

\* "(" << op1 << ") <symbol> (" << op2 << ")": Divides, Minus, Multiplies, Plus
infix_to_sql(op1, symbol, op2) == "(" \o op1 \o ") " \o symbol \o " (" \o op2 \o ")"

operation_to_sql(s) ==
  CASE s.tag = "Abs" -> "abs(" \o operation_to_sql(s.op1) \o ")"
    [] s.tag = "Aggregation" -> aggregation_to_sql(s)
    [] s.tag = "Cast" ->
         "cast(" \o operation_to_sql(s.op1) \o " as " \o type_to_sql(s.target_type) \o ")"
    [] s.tag = "Coalesce" ->
         "coalesce("
         \o join(", ", [i \in 1..Len(s.ops) |-> operation_to_sql(s.ops[i])])
         \o ")"
    [] s.tag = "Ceil" -> "ceil(" \o operation_to_sql(s.op1) \o ")"
    [] s.tag = "Column" -> column_or_value_to_sql(s)
    [] s.tag = "Concat" ->
         "("
         \o join(" || ", [i \in 1..Len(s.ops) |-> operation_to_sql(s.ops[i])])
         \o ")"
    [] s.tag = "Cos" -> "cos(" \o operation_to_sql(s.op1) \o ")"
    [] s.tag = "DatePlusDuration" ->
         operation_to_sql(s.date) \o " + "
         \o join(" + ", [i \in 1..Len(s.durations) |->
                   column_or_value_to_sql([tag |-> "Value", val |-> s.durations[i]])])
    [] s.tag = "Day" -> "extract(DAY from " \o operation_to_sql(s.op1) \o ")"
    [] s.tag = "DaysBetween" ->
         "cast(" \o operation_to_sql(s.op2) \o " as DATE) - cast("
         \o operation_to_sql(s.op1) \o " as DATE)"
    [] s.tag = "Divides" ->
         infix_to_sql(operation_to_sql(s.op1), "/", operation_to_sql(s.op2))
    [] s.tag = "Exp" -> "exp(" \o operation_to_sql(s.op1) \o ")"
    [] s.tag = "Floor" -> "floor(" \o operation_to_sql(s.op1) \o ")"
    [] s.tag = "Hour" -> "extract(HOUR from " \o operation_to_sql(s.op1) \o ")"
    [] s.tag = "Length" -> "length(" \o operation_to_sql(s.op1) \o ")"
    [] s.tag = "Ln" -> "ln(" \o operation_to_sql(s.op1) \o ")"
    [] s.tag = "Log2" -> "log(2.0, " \o operation_to_sql(s.op1) \o ")"
    [] s.tag = "Lower" -> "lower(" \o operation_to_sql(s.op1) \o ")"
    [] s.tag = "LTrim" ->
         "ltrim(" \o operation_to_sql(s.op1) \o ", " \o operation_to_sql(s.op2) \o ")"
    [] s.tag = "Minus" ->
         infix_to_sql(operation_to_sql(s.op1), "-", operation_to_sql(s.op2))
    [] s.tag = "Minute" -> "extract(MINUTE from " \o operation_to_sql(s.op1) \o ")"
    [] s.tag = "Mod" ->
         "mod(" \o operation_to_sql(s.op1) \o ", " \o operation_to_sql(s.op2) \o ")"
    [] s.tag = "Month" -> "extract(MONTH from " \o operation_to_sql(s.op1) \o ")"
    [] s.tag = "Multiplies" ->
         infix_to_sql(operation_to_sql(s.op1), "*", operation_to_sql(s.op2))
    [] s.tag = "Plus" ->
         infix_to_sql(operation_to_sql(s.op1), "+", operation_to_sql(s.op2))
    [] s.tag = "Replace" ->
         "replace(" \o operation_to_sql(s.op1) \o ", " \o operation_to_sql(s.op2)
         \o ", " \o operation_to_sql(s.op3) \o ")"
    [] s.tag = "Round" ->
         "round(" \o operation_to_sql(s.op1) \o ", " \o operation_to_sql(s.op2) \o ")"
    [] s.tag = "RTrim" ->
         "rtrim(" \o operation_to_sql(s.op1) \o ", " \o operation_to_sql(s.op2) \o ")"
    [] s.tag = "Second" -> "extract(SECOND from " \o operation_to_sql(s.op1) \o ")"
    [] s.tag = "Sin" -> "sin(" \o operation_to_sql(s.op1) \o ")"
    [] s.tag = "Sqrt" -> "sqrt(" \o operation_to_sql(s.op1) \o ")"
    [] s.tag = "Tan" -> "tan(" \o operation_to_sql(s.op1) \o ")"
    [] s.tag = "Trim" ->
         "trim(" \o operation_to_sql(s.op1) \o ", " \o operation_to_sql(s.op2) \o ")"
    [] s.tag = "Unixepoch" -> "extract(EPOCH FROM " \o operation_to_sql(s.op1) \o ")"
    [] s.tag = "Upper" -> "upper(" \o operation_to_sql(s.op1) \o ")"
    [] s.tag = "Value" -> column_or_value_to_sql(s)
    [] s.tag = "Weekday" -> "extract(DOW from " \o operation_to_sql(s.op1) \o ")"
    [] s.tag = "Year" -> "extract(YEAR from " \o operation_to_sql(s.op1) \o ")"

(***************************************************************************)
(* Expression compiler: Condition.                                          *)
(***************************************************************************)
RECURSIVE condition_to_sql(_)

condition_to_sql_impl(c) ==
  CASE c.tag = "And" ->
         "(" \o condition_to_sql(c.cond1) \o ") AND (" \o condition_to_sql(c.cond2) \o ")"
    [] c.tag = "Equal" -> operation_to_sql(c.op1) \o " = " \o operation_to_sql(c.op2)
    [] c.tag = "GreaterEqual" ->
         operation_to_sql(c.op1) \o " >= " \o operation_to_sql(c.op2)
    [] c.tag = "GreaterThan" ->
         operation_to_sql(c.op1) \o " > " \o operation_to_sql(c.op2)
    [] c.tag = "In" ->
         operation_to_sql(c.op) \o " IN ("
         \o join(", ", [i \in 1..Len(c.patterns) |-> column_or_value_to_sql(c.patterns[i])])
         \o ")"
    [] c.tag = "IsNull" -> operation_to_sql(c.op) \o " IS NULL"
    [] c.tag = "IsNotNull" -> operation_to_sql(c.op) \o " IS NOT NULL"
    [] c.tag = "LesserEqual" ->
         operation_to_sql(c.op1) \o " <= " \o operation_to_sql(c.op2)
    [] c.tag = "LesserThan" ->
         operation_to_sql(c.op1) \o " < " \o operation_to_sql(c.op2)
    [] c.tag = "Like" ->
         operation_to_sql(c.op) \o " LIKE " \o column_or_value_to_sql(c.pattern)
    [] c.tag = "Not" -> "NOT (" \o condition_to_sql(c.cond) \o ")"
    [] c.tag = "NotEqual" ->
         operation_to_sql(c.op1) \o " != " \o operation_to_sql(c.op2)
    [] c.tag = "NotLike" ->
         operation_to_sql(c.op) \o " NOT LIKE " \o column_or_value_to_sql(c.pattern)
    [] c.tag = "NotIn" ->
         operation_to_sql(c.op) \o " NOT IN ("
         \o join(", ", [i \in 1..Len(c.patterns) |-> column_or_value_to_sql(c.patterns[i])])
         \o ")"
    [] c.tag = "Or" ->
         "(" \o condition_to_sql(c.cond1) \o ") OR (" \o condition_to_sql(c.cond2) \o ")"

\* mutant: an And directly under an And is flattened into its parent
condition_to_sql_flattened(cond) ==
  IF cond.val.tag = "And" /\ cond.val.cond1.val.tag = "And"
  THEN condition_to_sql_impl(cond.val.cond1.val)
       \o " AND (" \o condition_to_sql_impl(cond.val.cond2.val) \o ")"
  ELSE condition_to_sql_impl(cond.val)

condition_to_sql(cond) == condition_to_sql_impl(cond.val)

(***************************************************************************)
(* Statement compiler.                                                      *)
(***************************************************************************)
get_name(col) == col.name

get_enum_mapping(col) ==
  IF col.type.tag = "Enum"
  THEN [name |-> type_to_sql(col.type), values |-> col.type.values]
  ELSE [name |-> "", values |-> <<>>]

column_to_sql_definition(col) ==
  wrap_in_quotes(col.name) \o " " \o type_to_sql(col.type)
  \o properties_to_sql(col.type.properties)

is_primary_key(col) == col.type.properties.primary

\* mutant: the filter on the primary property is lost
get_primary_keys_unfiltered(stmt) ==
  [i \in 1..Len(stmt.columns) |-> wrap_in_quotes(get_name(stmt.columns[i]))]

get_primary_keys(stmt) ==
  LET keys == SelectSeq(stmt.columns, is_primary_key)
  IN  [i \in 1..Len(keys) |-> wrap_in_quotes(get_name(keys[i]))]

is_enum(col) == col.type.tag = "Enum"

get_enum_types(stmt) ==
  LET enums == SelectSeq(stmt.columns, is_enum)
  IN  [i \in 1..Len(enums) |-> get_enum_mapping(enums[i])]

\* the statement renderers' shared table qualification: "schema"."name" or "name"
table_to_sql(table) ==
  (IF HasValue(table.schema) THEN wrap_in_quotes(ValueOf(table.schema)) \o "." ELSE "")
  \o wrap_in_quotes(table.name)

create_index_to_sql(stmt) ==
  (IF stmt.unique THEN "CREATE UNIQUE INDEX " ELSE "CREATE INDEX ")
  \o (IF stmt.if_not_exists THEN "IF NOT EXISTS " ELSE "")
  \o "\"" \o stmt.name \o "\" "
  \o "ON "
  \o (IF HasValue(stmt.table.schema)
      THEN "\"" \o ValueOf(stmt.table.schema) \o "\"." ELSE "")
  \o "\"" \o stmt.table.name \o "\""
  \o "("
  \o join(", ", [i \in 1..Len(stmt.columns) |-> wrap_in_quotes(stmt.columns[i])])
  \o ")"
  \o (IF HasValue(stmt.where)
      THEN " WHERE " \o condition_to_sql(ValueOf(stmt.where)) ELSE "")
  \o ";"

\* mutant: the preamble is never wrapped in the duplicate-tolerant block
enum_preamble_unwrapped(stmt, enum) ==
  "CREATE TYPE " \o enum.name \o " AS ENUM ("
  \o join(", ", [i \in 1..Len(enum.values) |-> wrap_in_single_quotes(enum.values[i])])
  \o "); "

enum_preamble(stmt, enum) ==
  (IF stmt.if_not_exists THEN "DO $$ BEGIN " ELSE "")
  \o "CREATE TYPE " \o enum.name \o " AS ENUM ("
  \o join(", ", [i \in 1..Len(enum.values) |-> wrap_in_single_quotes(enum.values[i])])
  \o "); "
  \o (IF stmt.if_not_exists
      THEN "EXCEPTION WHEN duplicate_object THEN NULL; END $$;" ELSE "")

create_table_to_sql(stmt) ==
  LET enums == get_enum_types(stmt)
      primary_keys == get_primary_keys(stmt)
  IN  join("", [i \in 1..Len(enums) |-> enum_preamble(stmt, enums[i])])
      \o "CREATE TABLE "
      \o (IF stmt.if_not_exists THEN "IF NOT EXISTS " ELSE "")
      \o table_to_sql(stmt.table) \o " "
      \o "("
      \o join(", ", [i \in 1..Len(stmt.columns) |->
                       column_to_sql_definition(stmt.columns[i])])
      \o (IF Len(primary_keys) # 0
          THEN ", PRIMARY KEY (" \o join(", ", primary_keys) \o ")" ELSE "")
      \o ");"

delete_from_to_sql(stmt) ==
  "DELETE FROM "
  \o table_to_sql(stmt.table)
  \o (IF HasValue(stmt.where)
      THEN " WHERE " \o condition_to_sql(ValueOf(stmt.where)) ELSE "")
  \o ";"

drop_to_sql(stmt) ==
  "DROP "
  \o replace_all(to_upper(enum_to_string(stmt.what)), "_", " ")
  \o " "
  \o (IF stmt.if_exists THEN "IF EXISTS " ELSE "")
  \o table_to_sql(stmt.table)
  \o (IF stmt.cascade THEN " CASCADE" ELSE "")
  \o ";"

field_to_str(field) ==
  operation_to_sql(field.val)
  \o (IF HasValue(field.as) THEN " AS " \o wrap_in_quotes(ValueOf(field.as)) ELSE "")

\* mutant: placeholders numbered from 0
to_placeholder_from_zero(i) == "$" \o to_string(i)

to_placeholder(i) == "$" \o to_string(i + 1)

as_excluded(str) == str \o "=excluded." \o str

insert_to_sql(stmt) ==
  "INSERT INTO "
  \o table_to_sql(stmt.table)
  \o " ("
  \o join(", ", [i \in 1..Len(stmt.columns) |-> wrap_in_quotes(stmt.columns[i])])
  \o ")"
  \o " VALUES ("
  \o join(", ", [i \in 1..Len(stmt.columns) |-> to_placeholder(i - 1)])
  \o ")"
  \o (IF stmt.or_replace
      THEN " ON CONFLICT ("
           \o join(", ", stmt.constraints)
           \o ")"
           \o " DO UPDATE SET "
           \o join(", ", [i \in 1..Len(stmt.columns) |-> as_excluded(stmt.columns[i])])
      ELSE "")
  \o ";"

RECURSIVE select_from_to_sql(_)
RECURSIVE table_or_query_to_sql(_)
RECURSIVE join_to_sql(_)

\* join_to_sql that writes no ON clause for a join without a condition
join_to_sql_without_default_on(stmt) ==
  to_upper(replace_all(enum_to_string(stmt.how), "_", " "))
  \o " " \o table_or_query_to_sql(stmt.table_or_query) \o " "
  \o stmt.alias \o " "
  \o (IF HasValue(stmt.on)
      THEN "ON " \o condition_to_sql(ValueOf(stmt.on))
      ELSE "")

join_to_sql(stmt) ==
  to_upper(replace_all(enum_to_string(stmt.how), "_", " "))
  \o " " \o table_or_query_to_sql(stmt.table_or_query) \o " "
  \o stmt.alias \o " "
  \o (IF HasValue(stmt.on)
      THEN "ON " \o condition_to_sql(ValueOf(stmt.on))
      ELSE "ON 1 = 1")

order_by_to_str(w) ==
  column_or_value_to_sql(w.column) \o (IF w.desc THEN " DESC" ELSE "")

\* mutant: the LIMIT clause is written before the ORDER BY clause
select_from_to_sql_limit_first(stmt) ==
  "SELECT "
  \o join(", ", [i \in 1..Len(stmt.fields) |-> field_to_str(stmt.fields[i])])
  \o " FROM " \o table_or_query_to_sql(stmt.table_or_query)
  \o (IF HasValue(stmt.alias) THEN " " \o ValueOf(stmt.alias) ELSE "")
  \o (IF HasValue(stmt.joins)
      THEN " " \o join(" ", [i \in 1..Len(ValueOf(stmt.joins)) |->
                               join_to_sql(ValueOf(stmt.joins)[i])])
      ELSE "")
  \o (IF HasValue(stmt.where)
      THEN " WHERE " \o condition_to_sql(ValueOf(stmt.where)) ELSE "")
  \o (IF HasValue(stmt.group_by)
      THEN " GROUP BY "
           \o join(", ", [i \in 1..Len(ValueOf(stmt.group_by).columns) |->
                     column_or_value_to_sql(ValueOf(stmt.group_by).columns[i])])
      ELSE "")
  \o (IF HasValue(stmt.limit)
      THEN " LIMIT " \o to_string(ValueOf(stmt.limit).val) ELSE "")
  \o (IF HasValue(stmt.order_by)
      THEN " ORDER BY "
           \o join(", ", [i \in 1..Len(ValueOf(stmt.order_by).columns) |->
                     order_by_to_str(ValueOf(stmt.order_by).columns[i])])
      ELSE "")

select_from_to_sql(stmt) ==
  "SELECT "
  \o join(", ", [i \in 1..Len(stmt.fields) |-> field_to_str(stmt.fields[i])])
  \o " FROM " \o table_or_query_to_sql(stmt.table_or_query)
  \o (IF HasValue(stmt.alias) THEN " " \o ValueOf(stmt.alias) ELSE "")
  \o (IF HasValue(stmt.joins)
      THEN " " \o join(" ", [i \in 1..Len(ValueOf(stmt.joins)) |->
                               join_to_sql(ValueOf(stmt.joins)[i])])
      ELSE "")
  \o (IF HasValue(stmt.where)
      THEN " WHERE " \o condition_to_sql(ValueOf(stmt.where)) ELSE "")
  \o (IF HasValue(stmt.group_by)
      THEN " GROUP BY "
           \o join(", ", [i \in 1..Len(ValueOf(stmt.group_by).columns) |->
                     column_or_value_to_sql(ValueOf(stmt.group_by).columns[i])])
      ELSE "")
  \o (IF HasValue(stmt.order_by)
      THEN " ORDER BY "
           \o join(", ", [i \in 1..Len(ValueOf(stmt.order_by).columns) |->
                     order_by_to_str(ValueOf(stmt.order_by).columns[i])])
      ELSE "")
  \o (IF HasValue(stmt.limit)
      THEN " LIMIT " \o to_string(ValueOf(stmt.limit).val) ELSE "")

table_or_query_to_sql(t) ==
  IF t.tag = "Table"
  THEN IF HasValue(t.schema)
       THEN wrap_in_quotes(ValueOf(t.schema)) \o "." \o wrap_in_quotes(t.name)
       ELSE wrap_in_quotes(t.name)
  ELSE "(" \o select_from_to_sql(t) \o ")"

create_as_to_sql(stmt) ==
  "CREATE "
  \o (IF stmt.or_replace THEN "OR REPLACE " ELSE "")
  \o replace_all(to_upper(enum_to_string(stmt.what)), "_", " ")
  \o " "
  \o (IF stmt.if_not_exists THEN "IF NOT EXISTS " ELSE "")
  \o table_to_sql(stmt.table_or_view) \o " AS "
  \o select_from_to_sql(stmt.query)

update_set_to_str(set) ==
  wrap_in_quotes(set.col.name) \o " = " \o column_or_value_to_sql(set.to)

update_to_sql(stmt) ==
  "UPDATE "
  \o table_to_sql(stmt.table)
  \o " SET "
  \o join(", ", [i \in 1..Len(stmt.sets) |-> update_set_to_str(stmt.sets[i])])
  \o (IF HasValue(stmt.where)
      THEN " WHERE " \o condition_to_sql(ValueOf(stmt.where)) ELSE "")
  \o ";"

DefaultSchema == "public"

\* the COPY framing bytes: tab, ESC (0x1B, written "\e") and BEL (0x07, "\a")
TabChar == "\t"

EscChar == "<ESC>"

BelChar == "<BEL>"

\* write_to_sql that qualifies the table only when the statement names a schema
write_to_sql_unqualified(stmt) ==
  LET table == wrap_in_quotes(stmt.table.name)
      colnames == join(", ", [i \in 1..Len(stmt.columns) |->
                                wrap_in_quotes(stmt.columns[i])])
  IN  "COPY "
      \o (IF HasValue(stmt.table.schema)
          THEN wrap_in_quotes(ValueOf(stmt.table.schema)) \o "." ELSE "")
      \o table \o "(" \o colnames
      \o ") FROM STDIN WITH DELIMITER '" \o TabChar \o "' NULL '" \o EscChar
      \o "' CSV QUOTE '" \o BelChar \o "';"

write_to_sql(stmt) ==
  LET schema == wrap_in_quotes(IF HasValue(stmt.table.schema)
                               THEN ValueOf(stmt.table.schema) ELSE DefaultSchema)
      table == wrap_in_quotes(stmt.table.name)
      colnames == join(", ", [i \in 1..Len(stmt.columns) |->
                                wrap_in_quotes(stmt.columns[i])])
  IN  "COPY " \o schema \o "." \o table \o "(" \o colnames
      \o ") FROM STDIN WITH DELIMITER '" \o TabChar \o "' NULL '" \o EscChar
      \o "' CSV QUOTE '" \o BelChar \o "';"

to_sql_impl(stmt) ==
  CASE stmt.tag = "CreateIndex" -> create_index_to_sql(stmt)
    [] stmt.tag = "CreateTable" -> create_table_to_sql(stmt)
    [] stmt.tag = "CreateAs" -> create_as_to_sql(stmt)
    [] stmt.tag = "DeleteFrom" -> delete_from_to_sql(stmt)
    [] stmt.tag = "Drop" -> drop_to_sql(stmt)
    [] stmt.tag = "Insert" -> insert_to_sql(stmt)
    [] stmt.tag = "SelectFrom" -> select_from_to_sql(stmt)
    [] stmt.tag = "Update" -> update_to_sql(stmt)
    [] stmt.tag = "Write" -> write_to_sql(stmt)

(***************************************************************************)
(* Constructors of the dynamic:: tree nodes.                                *)
(***************************************************************************)
Properties(auto_incr, nullable, unique, primary, fk) ==
  [auto_incr |-> auto_incr, nullable |-> nullable, unique |-> unique,
   primary |-> primary, foreign_key_reference |-> fk]

NoProperties == Properties(FALSE, FALSE, FALSE, FALSE, Nothing)

SimpleType(tag, props) == [tag |-> tag, properties |-> props]

VarCharType(length, props) == [tag |-> "VarChar", length |-> length, properties |-> props]

EnumType(name, values, props) ==
  [tag |-> "Enum", name |-> name, values |-> values, properties |-> props]

DynamicType(type_name, props) ==
  [tag |-> "Dynamic", type_name |-> type_name, properties |-> props]

Column(alias, name, type) == [tag |-> "Column", alias |-> alias, name |-> name, type |-> type]

ColumnRef(alias, name) == Column(alias, name, SimpleType("Unknown", NoProperties))

Value(v) == [tag |-> "Value", val |-> v]

String(str) == [tag |-> "String", val |-> str]

Integer(n) == [tag |-> "Integer", val |-> n]

Float(n) == [tag |-> "Float", val |-> n]

Boolean(b) == [tag |-> "Boolean", val |-> b]

Duration(n, unit) == [tag |-> "Duration", val |-> n, unit |-> unit]

Timestamp(secs) == [tag |-> "Timestamp", seconds_since_unix |-> secs]

Unary(tag, op1) == [tag |-> tag, op1 |-> op1]

Binary(tag, op1, op2) == [tag |-> tag, op1 |-> op1, op2 |-> op2]

Aggregation(agg) == [tag |-> "Aggregation", val |-> agg]

Count(val, distinct) == [tag |-> "Count", val |-> val, distinct |-> distinct]

Condition(c) == [val |-> c]

Compare(tag, op1, op2) == Condition([tag |-> tag, op1 |-> op1, op2 |-> op2])

And(cond1, cond2) == Condition([tag |-> "And", cond1 |-> cond1, cond2 |-> cond2])

Or(cond1, cond2) == Condition([tag |-> "Or", cond1 |-> cond1, cond2 |-> cond2])

Not(cond) == Condition([tag |-> "Not", cond |-> cond])

Table(schema, name) == [tag |-> "Table", schema |-> schema, name |-> name]

SeqsUpTo(S, n) == UNION {[1..k -> S] : k \in 0..n}

Optional(S) == {Nothing} \cup {Some(v) : v \in S}

(***************************************************************************)
(* The checked input domain: names, literals and expression trees.          *)
(***************************************************************************)
TableNames == {"Users", "T2"}

SchemaNames == {"Sch"}

ColumnNames == {"id", "name"}

AliasNames == {"t1", "t2"}

IndexNames == {"Idx"}

FieldNames == {"cnt"}

StringLiterals == {"abc", "O'Brien"}

Tables == {Table(Nothing, n) : n \in TableNames} \cup {Table(Some("Sch"), "Users")}

ColumnRefs == {ColumnRef(Nothing, "id"), ColumnRef(Some("t1"), "name")}

Values ==
  {Value(String(str)) : str \in StringLiterals}
  \cup {Value(Integer(1)), Value(Integer(-5)), Value(Float(2)), Value(Boolean(TRUE)),
        Value(Duration(3, "days")), Value(Timestamp(0))}

OpLeaves ==
  ColumnRefs \cup {Value(String("O'Brien")), Value(Integer(1))}

UnaryTags ==
  {"Abs", "Ceil", "Cos", "Day", "Exp", "Floor", "Hour", "Length", "Ln", "Log2",
   "Lower", "Minute", "Month", "Second", "Sin", "Sqrt", "Tan", "Unixepoch",
   "Upper", "Weekday", "Year"}

BinaryTags ==
  {"DaysBetween", "Divides", "LTrim", "Minus", "Mod", "Multiplies", "Plus",
   "Round", "RTrim", "Trim"}

TypeTags ==
  {"Boolean", "Int8", "Int16", "Int32", "Int64", "UInt8", "UInt16", "UInt32",
   "UInt64", "Float32", "Float64", "Text", "JSON", "Date", "Timestamp",
   "TimestampWithTZ", "Unknown"}

Types ==
  {SimpleType(tag, NoProperties) : tag \in TypeTags}
  \cup {VarCharType(10, NoProperties), DynamicType("TEXT", NoProperties),
        EnumType("Mood", <<"happy", "sad">>, NoProperties)}

\* the Properties a type is rendered under: none set, and every one set
PropertySets ==
  {NoProperties,
   Properties(TRUE, FALSE, TRUE, TRUE, Some([table |-> "Users", column |-> "id"])),
   Properties(FALSE, TRUE, FALSE, TRUE, Nothing)}

TypeNames == {"TEXT", "UUID", "Mood"}

\* the types type_to_sql is called on directly
TypeInputs ==
  {SimpleType(tag, p) : tag \in TypeTags, p \in PropertySets}
  \cup {VarCharType(n, p) : n \in {10, 255}, p \in PropertySets}
  \cup {DynamicType(n, p) : n \in TypeNames, p \in PropertySets}
  \cup {EnumType(n, vs, p) :
          n \in TypeNames, vs \in {<<"happy", "sad">>, <<"it's">>}, p \in PropertySets}

Aggregations ==
  {Aggregation([tag |-> tag, val |-> op]) :
     tag \in {"Avg", "Max", "Min", "Sum"}, op \in OpLeaves}
  \cup {Aggregation(Count(val, distinct)) :
          val \in Optional(OpLeaves), distinct \in BOOLEAN}

ArithmeticTags == {"Plus", "Minus", "Multiplies", "Divides", "Mod"}

\* the arithmetic trees with exactly k arithmetic nodes, over a column and a
\* function of a value
RECURSIVE ArithmeticOperations(_)
ArithmeticOperations(k) ==
  IF k = 0 THEN {ColumnRef(Nothing, "id"), Unary("Abs", Value(Integer(1)))}
  ELSE UNION {{Binary(tag, a, b) :
                 tag \in ArithmeticTags, a \in ArithmeticOperations(i),
                 b \in ArithmeticOperations(k - 1 - i)} : i \in 0..(k - 1)}

Operations ==
  ColumnRefs \cup Values
  \cup {Unary(tag, op) : tag \in UnaryTags, op \in OpLeaves}
  \cup {Binary(tag, op1, op2) : tag \in BinaryTags, op1 \in OpLeaves, op2 \in OpLeaves}
  \cup {[tag |-> "Replace", op1 |-> op1, op2 |-> op2, op3 |-> op3] :
          op1 \in ColumnRefs, op2 \in OpLeaves, op3 \in OpLeaves}
  \cup {[tag |-> "Cast", op1 |-> ColumnRef(Nothing, "id"), target_type |-> t] : t \in Types}
  \cup {[tag |-> tag, ops |-> ops] :
          tag \in {"Coalesce", "Concat"}, ops \in SeqsUpTo(OpLeaves, MaxCols)}
  \cup {[tag |-> "DatePlusDuration", date |-> date, durations |-> ds] :
          date \in ColumnRefs,
          ds \in SeqsUpTo({Duration(3, "days"), Duration(1, "hours")}, MaxCols)}
  \cup Aggregations
  \cup UNION {ArithmeticOperations(k) : k \in 1..MaxArithmeticNodes}

CompareTags ==
  {"Equal", "GreaterEqual", "GreaterThan", "LesserEqual", "LesserThan", "NotEqual"}

Patterns == {Value(String(str)) : str \in StringLiterals} \cup {Value(Integer(1))}

LeafConditions ==
  {Compare(tag, op1, op2) : tag \in CompareTags, op1 \in OpLeaves, op2 \in OpLeaves}
  \cup {Condition([tag |-> tag, op |-> op, patterns |-> ps]) :
          tag \in {"In", "NotIn"}, op \in ColumnRefs, ps \in SeqsUpTo(Patterns, MaxCols)}
  \cup {Condition([tag |-> tag, op |-> op]) :
          tag \in {"IsNull", "IsNotNull"}, op \in OpLeaves}
  \cup {Condition([tag |-> tag, op |-> op, pattern |-> Value(String(str))]) :
          tag \in {"Like", "NotLike"}, op \in ColumnRefs, str \in StringLiterals}

CondA == Compare("Equal", ColumnRef(Nothing, "id"), Value(Integer(1)))

CondB ==
  Condition([tag |-> "Like", op |-> ColumnRef(Some("t1"), "name"),
             pattern |-> Value(String("O'Brien"))])

\* the condition trees over CondA, CondB with exactly k And/Or/Not nodes
RECURSIVE LogicalConditions(_)
LogicalConditions(k) ==
  IF k = 0 THEN {CondA, CondB}
  ELSE {Not(c) : c \in LogicalConditions(k - 1)}
       \cup UNION {{And(a, b) : a \in LogicalConditions(i), b \in LogicalConditions(k - 1 - i)}
                    : i \in 0..(k - 1)}
       \cup UNION {{Or(a, b) : a \in LogicalConditions(i), b \in LogicalConditions(k - 1 - i)}
                    : i \in 0..(k - 1)}

Conditions == LeafConditions \cup UNION {LogicalConditions(k) : k \in 1..MaxLogicalNodes}

(***************************************************************************)
(* The checked input domain: statements.                                    *)
(***************************************************************************)
Wheres == {Nothing, Some(CondA), Some(And(CondA, CondB))}

NameLists == SeqsUpTo(ColumnNames, MaxCols)

Inserts ==
  {[tag |-> "Insert", table |-> t, columns |-> cols, or_replace |-> FALSE,
    constraints |-> <<>>] : t \in Tables, cols \in NameLists}
  \cup {[tag |-> "Insert", table |-> t, columns |-> cols, or_replace |-> TRUE,
         constraints |-> cs] : t \in Tables, cols \in NameLists, cs \in NameLists}

UpdateSets ==
  {[col |-> ColumnRef(Nothing, "name"), to |-> Value(String("O'Brien"))],
   [col |-> ColumnRef(Nothing, "id"), to |-> Value(Integer(1))],
   [col |-> ColumnRef(Nothing, "name"), to |-> ColumnRef(Nothing, "id")]}

Updates ==
  {[tag |-> "Update", table |-> t, sets |-> sets, where |-> w] :
     t \in Tables, sets \in SeqsUpTo(UpdateSets, MaxCols), w \in Wheres}

DeleteFroms == {[tag |-> "DeleteFrom", table |-> t, where |-> w] : t \in Tables, w \in Wheres}

Drops ==
  {[tag |-> "Drop", what |-> what, if_exists |-> e, cascade |-> c, table |-> t] :
     what \in {"table", "view", "materialized_view"}, e \in BOOLEAN, c \in BOOLEAN,
     t \in Tables}

CreateIndexes ==
  {[tag |-> "CreateIndex", name |-> n, table |-> t, unique |-> u, if_not_exists |-> e,
    columns |-> cols, where |-> w] :
     n \in IndexNames, t \in Tables, u \in BOOLEAN, e \in BOOLEAN, cols \in NameLists,
     w \in {Nothing, Some(CondA)}}

Mood == EnumType("Mood", <<"happy", "sad">>, NoProperties)

Size == EnumType("Size", <<"it's">>, Properties(FALSE, TRUE, FALSE, FALSE, Nothing))

TableColumns ==
  {Column(Nothing, "id", SimpleType("Int32", Properties(FALSE, FALSE, FALSE, TRUE, Nothing))),
   Column(Nothing, "id", SimpleType("Int64", Properties(TRUE, FALSE, FALSE, TRUE, Nothing))),
   Column(Nothing, "id", Mood),
   Column(Nothing, "name", SimpleType("Text", Properties(FALSE, TRUE, FALSE, FALSE, Nothing))),
   Column(Nothing, "name",
          VarCharType(10, Properties(FALSE, FALSE, TRUE, TRUE,
                                     Some([table |-> "Users", column |-> "id"])))),
   Column(Nothing, "name", Mood),
   Column(Nothing, "name", Size)}

CreateTables ==
  {[tag |-> "CreateTable", table |-> t, columns |-> cols, if_not_exists |-> e] :
     t \in {Table(Nothing, "Users"), Table(Some("Sch"), "Users")},
     cols \in SeqsUpTo(TableColumns, MaxCols), e \in BOOLEAN}

Writes ==
  {[tag |-> "Write", table |-> t, columns |-> cols] : t \in Tables, cols \in NameLists}

Select(fields, table_or_query, alias, joins, where, group_by, order_by, limit) ==
  [tag |-> "SelectFrom", fields |-> fields, table_or_query |-> table_or_query,
   alias |-> alias, joins |-> joins, where |-> where, group_by |-> group_by,
   order_by |-> order_by, limit |-> limit]

Field(val, as) == [val |-> val, as |-> as]

Join(how, table_or_query, alias, on) ==
  [how |-> how, table_or_query |-> table_or_query, alias |-> alias, on |-> on]

FieldId == Field(ColumnRef(Nothing, "id"), Nothing)

FieldCount == Field(Aggregation(Count(Nothing, FALSE)), Some("cnt"))

GroupBys == Optional({[columns |-> cols] : cols \in SeqsUpTo({ColumnRef(Nothing, "id")}, 1)})

OrderBys ==
  Optional({[columns |-> cols] :
              cols \in SeqsUpTo({[column |-> ColumnRef(Nothing, "name"), desc |-> TRUE]}, 1)})

Limits == Optional({[val |-> 10]})

\* sub-queries: a bare one, and one that carries every optional clause
SubQueries ==
  {Select(<<FieldId>>, Table(Nothing, "T2"), Nothing, Nothing, Nothing, Nothing, Nothing,
          Nothing),
   Select(<<FieldId>>, Table(Nothing, "T2"), Nothing, Nothing, Some(CondA),
          Some([columns |-> <<ColumnRef(Nothing, "id")>>]),
          Some([columns |-> <<[column |-> ColumnRef(Nothing, "id"), desc |-> FALSE]>>]),
          Some([val |-> 5]))}

Joins ==
  {Join(how, toq, "t2", on) :
     how \in {"inner_join", "left_join", "right_join", "full_join"},
     toq \in {Table(Nothing, "T2")} \cup SubQueries,
     on \in {Nothing, Some(CondA)}}

JoinLists ==
  {Nothing, Some(<<>>),
   Some(<<Join("left_join", Table(Nothing, "T2"), "t2", Some(CondA))>>),
   Some(<<Join("inner_join", Table(Nothing, "T2"), "t2", Nothing),
          Join("left_join", CHOOSE q \in SubQueries : HasValue(q.where), "t1",
               Some(CondB))>>),
   Some(<<Join("right_join", CHOOSE q \in SubQueries : ~HasValue(q.where), "t2",
               Some(CondA)),
          Join("full_join", Table(Some("Sch"), "Users"), "t1", Nothing)>>)}

SelectFroms ==
  \* which optional clauses are present, over a table and over a sub-query
  {Select(<<FieldId>>, src, alias, joins, w, g, o, l) :
     src \in {Table(Nothing, "Users")} \cup SubQueries, alias \in Optional({"t1"}),
     joins \in JoinLists, w \in {Nothing, Some(CondB)}, g \in GroupBys, o \in OrderBys,
     l \in Limits}
  \* field lists and sources
  \cup {Select(fields, src, Nothing, Nothing, Nothing, Nothing, Nothing, Nothing) :
          fields \in SeqsUpTo({FieldId, FieldCount}, MaxCols), src \in Tables \cup SubQueries}
  \* column lists of GROUP BY and ORDER BY
  \cup {Select(<<FieldCount>>, Table(Nothing, "Users"), Nothing, Nothing, Nothing,
               Some([columns |-> g]), Some([columns |-> o]), Nothing) :
          g \in SeqsUpTo(ColumnRefs, MaxCols),
          o \in SeqsUpTo({[column |-> c, desc |-> d] : c \in ColumnRefs, d \in BOOLEAN},
                         MaxCols)}
  \* single joins of every kind
  \cup {Select(<<FieldId>>, Table(Nothing, "Users"), Some("t1"), Some(<<j>>), Nothing,
               Nothing, Nothing, Nothing) : j \in Joins}

\* the SelectFroms whose recursion is traced: every field list and source,
\* every single join, and the statements that carry every clause
WalkSelects ==
  {q \in SelectFroms :
     \/ ~HasValue(q.joins) /\ ~HasValue(q.group_by) /\ ~HasValue(q.order_by)
          /\ ~HasValue(q.limit)
     \/ HasValue(q.joins) /\ ~HasValue(q.where) /\ ~HasValue(q.group_by)
          /\ ~HasValue(q.order_by) /\ ~HasValue(q.limit)
     \/ HasValue(q.joins) /\ HasValue(q.where) /\ HasValue(q.group_by)
          /\ HasValue(q.order_by) /\ HasValue(q.limit)}

CreateAses ==
  {[tag |-> "CreateAs", what |-> what, or_replace |-> r, if_not_exists |-> e,
    table_or_view |-> t, query |-> q] :
     what \in {"table", "view", "materialized_view"}, r \in BOOLEAN, e \in BOOLEAN,
     t \in Tables, q \in SubQueries}

Statements ==
  Inserts \cup Updates \cup DeleteFroms \cup Drops \cup CreateIndexes \cup CreateTables
  \cup Writes \cup SelectFroms \cup CreateAses

(***************************************************************************)
(* The state machine: a caller holds a tree (arg), calls one renderer (fn)  *)
(* on it and receives the text (ret).                                       *)
(***************************************************************************)
\* no recursion is traced
NoWalk ==
  /\ frames = <<>>
  /\ visits = <<>>
  /\ deepest = 0
  /\ root = [fn |-> "none"]

\* no caller is rendering side by side
NoCallers ==
  /\ caller = <<>>
  /\ stream = <<>>
  /\ log = {}

\* no single call is followed
NoRender ==
  /\ pc = "idle"
  /\ fn = "none"
  /\ arg = <<>>
  /\ ret = ""

Init ==
  /\ NoWalk
  /\ NoCallers
  /\ pc = "call"
  /\ ret = ""
  /\ \/ fn = "to_sql_impl" /\ arg \in Statements
     \/ fn = "condition_to_sql" /\ arg \in Conditions
     \/ fn = "operation_to_sql" /\ arg \in Operations
     \/ fn = "aggregation_to_sql" /\ arg \in Aggregations
     \/ fn = "type_to_sql" /\ arg \in TypeInputs

Return(text) ==
  /\ ret' = text
  /\ pc' = "done"
  /\ UNCHANGED <<fn, arg>>
  /\ UNCHANGED <<walk_vars, call_vars>>

ToSqlCreateIndex ==
  /\ pc = "call"
  /\ fn = "to_sql_impl"
  /\ arg.tag = "CreateIndex"
  /\ Return(to_sql_impl(arg))

ToSqlCreateTable ==
  /\ pc = "call"
  /\ fn = "to_sql_impl"
  /\ arg.tag = "CreateTable"
  /\ Return(to_sql_impl(arg))

ToSqlCreateAs ==
  /\ pc = "call"
  /\ fn = "to_sql_impl"
  /\ arg.tag = "CreateAs"
  /\ Return(to_sql_impl(arg))

ToSqlDeleteFrom ==
  /\ pc = "call"
  /\ fn = "to_sql_impl"
  /\ arg.tag = "DeleteFrom"
  /\ Return(to_sql_impl(arg))

ToSqlDrop ==
  /\ pc = "call"
  /\ fn = "to_sql_impl"
  /\ arg.tag = "Drop"
  /\ Return(to_sql_impl(arg))

ToSqlInsert ==
  /\ pc = "call"
  /\ fn = "to_sql_impl"
  /\ arg.tag = "Insert"
  /\ Return(to_sql_impl(arg))

ToSqlSelectFrom ==
  /\ pc = "call"
  /\ fn = "to_sql_impl"
  /\ arg.tag = "SelectFrom"
  /\ Return(to_sql_impl(arg))

ToSqlUpdate ==
  /\ pc = "call"
  /\ fn = "to_sql_impl"
  /\ arg.tag = "Update"
  /\ Return(to_sql_impl(arg))

ToSqlWrite ==
  /\ pc = "call"
  /\ fn = "to_sql_impl"
  /\ arg.tag = "Write"
  /\ Return(to_sql_impl(arg))

ConditionToSql ==
  /\ pc = "call"
  /\ fn = "condition_to_sql"
  /\ Return(condition_to_sql(arg))

OperationToSql ==
  /\ pc = "call"
  /\ fn = "operation_to_sql"
  /\ Return(operation_to_sql(arg))

AggregationToSql ==
  /\ pc = "call"
  /\ fn = "aggregation_to_sql"
  /\ Return(aggregation_to_sql(arg))

TypeToSql ==
  /\ pc = "call"
  /\ fn = "type_to_sql"
  /\ Return(type_to_sql(arg))

Next ==
  \/ ToSqlCreateIndex
  \/ ToSqlCreateTable
  \/ ToSqlCreateAs
  \/ ToSqlDeleteFrom
  \/ ToSqlDrop
  \/ ToSqlInsert
  \/ ToSqlSelectFrom
  \/ ToSqlUpdate
  \/ ToSqlWrite
  \/ ConditionToSql
  \/ OperationToSql
  \/ AggregationToSql
  \/ TypeToSql

Spec == Init /\ [][Next]_vars

(***************************************************************************)
(* The recursion of a rendering.  A frame is one active call of             *)
(* operation_to_sql, aggregation_to_sql, condition_to_sql,                  *)
(* select_from_to_sql, join_to_sql or table_or_query_to_sql; the helpers    *)
(* between them (field_to_str, condition_to_sql_impl, the visit lambdas)    *)
(* run inside the frame of their caller and column_or_value_to_sql calls    *)
(* none of the six.  A node is named by its path: the fields from the root. *)
(***************************************************************************)
Callee(f, node, step) == [fn |-> f, node |-> node, step |-> step]

\* the i-th element of a list field
Indexed(field, i) == field \o "[" \o ToString(i) \o "]"

\* the calls operation_to_sql makes on an Operation, in the order of its text
operation_calls(s) ==
  CASE s.tag \in {"Column", "Value"} -> <<>>
    [] s.tag = "Aggregation" -> <<Callee("aggregation_to_sql", s, "Aggregation")>>
    [] s.tag \in {"Coalesce", "Concat"} ->
         [i \in 1..Len(s.ops) |-> Callee("operation_to_sql", s.ops[i], Indexed("ops", i))]
    [] s.tag = "DatePlusDuration" -> <<Callee("operation_to_sql", s.date, "date")>>
    [] s.tag = "DaysBetween" ->
         <<Callee("operation_to_sql", s.op2, "op2"), Callee("operation_to_sql", s.op1, "op1")>>
    [] s.tag \in {"Divides", "LTrim", "Minus", "Mod", "Multiplies", "Plus", "Round",
                  "RTrim", "Trim"} ->
         <<Callee("operation_to_sql", s.op1, "op1"), Callee("operation_to_sql", s.op2, "op2")>>
    [] s.tag = "Replace" ->
         <<Callee("operation_to_sql", s.op1, "op1"), Callee("operation_to_sql", s.op2, "op2"),
           Callee("operation_to_sql", s.op3, "op3")>>
    [] OTHER -> <<Callee("operation_to_sql", s.op1, "op1")>>

\* an aggregation that renders its operand a second time
aggregation_calls_twice(aggregation) ==
  IF aggregation.val.tag = "Count" THEN <<>>
  ELSE <<Callee("operation_to_sql", aggregation.val.val, "val"),
         Callee("operation_to_sql", aggregation.val.val, "val")>>

\* Count renders its column through column_or_value_to_sql
aggregation_calls(aggregation) ==
  IF aggregation.val.tag = "Count" THEN <<>>
  ELSE <<Callee("operation_to_sql", aggregation.val.val, "val")>>

condition_calls(cond) ==
  LET c == cond.val
  IN  CASE c.tag \in {"And", "Or"} ->
             <<Callee("condition_to_sql", c.cond1, "cond1"),
               Callee("condition_to_sql", c.cond2, "cond2")>>
        [] c.tag = "Not" -> <<Callee("condition_to_sql", c.cond, "cond")>>
        [] c.tag \in {"Equal", "GreaterEqual", "GreaterThan", "LesserEqual", "LesserThan",
                      "NotEqual"} ->
             <<Callee("operation_to_sql", c.op1, "op1"),
               Callee("operation_to_sql", c.op2, "op2")>>
        [] c.tag \in {"In", "NotIn", "IsNull", "IsNotNull", "Like", "NotLike"} ->
             <<Callee("operation_to_sql", c.op, "op")>>

select_from_calls(stmt) ==
  [i \in 1..Len(stmt.fields) |->
     Callee("operation_to_sql", stmt.fields[i].val, Indexed("fields", i))]
  \o <<Callee("table_or_query_to_sql", stmt.table_or_query, "table_or_query")>>
  \o (IF HasValue(stmt.joins)
      THEN [i \in 1..Len(ValueOf(stmt.joins)) |->
              Callee("join_to_sql", ValueOf(stmt.joins)[i], Indexed("joins", i))]
      ELSE <<>>)
  \o (IF HasValue(stmt.where)
      THEN <<Callee("condition_to_sql", ValueOf(stmt.where), "where")>> ELSE <<>>)

join_calls(stmt) ==
  <<Callee("table_or_query_to_sql", stmt.table_or_query, "table_or_query")>>
  \o (IF HasValue(stmt.on)
      THEN <<Callee("condition_to_sql", ValueOf(stmt.on), "on")>> ELSE <<>>)

\* the variant holds a Table or a reference to a SelectFrom
table_or_query_calls(t) ==
  IF t.tag = "SelectFrom" THEN <<Callee("select_from_to_sql", t, "query")>> ELSE <<>>

callees(frame) ==
  CASE frame.fn = "operation_to_sql" -> operation_calls(frame.node)
    [] frame.fn = "aggregation_to_sql" -> aggregation_calls(frame.node)
    [] frame.fn = "condition_to_sql" -> condition_calls(frame.node)
    [] frame.fn = "select_from_to_sql" -> select_from_calls(frame.node)
    [] frame.fn = "join_to_sql" -> join_calls(frame.node)
    [] frame.fn = "table_or_query_to_sql" -> table_or_query_calls(frame.node)

Frame(f, node, path) == [fn |-> f, node |-> node, path |-> path, next |-> 1]

\* the trees a recursion starts on
WalkRoots ==
  {[fn |-> "operation_to_sql", node |-> n] : n \in Operations}
  \cup {[fn |-> "aggregation_to_sql", node |-> n] : n \in Aggregations}
  \cup {[fn |-> "condition_to_sql", node |-> n] : n \in Conditions}
  \cup {[fn |-> "select_from_to_sql", node |-> n] : n \in WalkSelects}
  \cup {[fn |-> "join_to_sql", node |-> n] : n \in Joins}
  \cup {[fn |-> "table_or_query_to_sql", node |-> n] : n \in Tables \cup SubQueries}

WalkInit ==
  /\ NoRender
  /\ NoCallers
  /\ root \in WalkRoots
  /\ frames = <<Frame(root.fn, root.node, <<>>)>>
  /\ visits = (<<>> :> 1)
  /\ deepest = 1

\* the call on top of the stack makes its next call
Enter ==
  /\ frames # <<>>
  /\ LET top == frames[Len(frames)]
     IN  /\ top.next <= Len(callees(top))
         /\ LET callee == callees(top)[top.next]
                path == Append(top.path, callee.step)
            IN  /\ frames' = Append([frames EXCEPT ![Len(frames)].next = @ + 1],
                                    Frame(callee.fn, callee.node, path))
                /\ visits' = IF path \in DOMAIN visits
                             THEN [visits EXCEPT ![path] = @ + 1]
                             ELSE visits @@ (path :> 1)
                /\ deepest' = IF Len(frames) + 1 > deepest THEN Len(frames) + 1
                              ELSE deepest
  /\ UNCHANGED <<root, render_vars, call_vars>>

\* the call on top of the stack has made all its calls and returns
Leave ==
  /\ frames # <<>>
  /\ LET top == frames[Len(frames)]
     IN  top.next > Len(callees(top))
  /\ frames' = SubSeq(frames, 1, Len(frames) - 1)
  /\ UNCHANGED <<visits, deepest, root, render_vars, call_vars>>

WalkNext ==
  \/ Enter
  \/ Leave

\* a call runs on: nothing but its own calls stands between it and its return
WalkSpec == WalkInit /\ [][WalkNext]_vars /\ WF_vars(WalkNext)

(***************************************************************************)
(* Callers side by side.  Each caller passes a tree by const reference; the *)
(* renderer builds the text in a std::stringstream that is an automatic     *)
(* variable of the call and returns stream.str().  The file holds no static *)
(* and no global object.                                                    *)
(***************************************************************************)
Callers == 1..MaxCallers

\* one string stream for every call, as a static stream would be
stream_of_static(p) == 0

\* the stream a call writes to: its own
stream_of(p) == p

\* the trees the callers render
CallTrees ==
  {[tag |-> "Insert", table |-> Table(Nothing, "Users"), columns |-> <<"id", "name">>,
    or_replace |-> FALSE, constraints |-> <<>>],
   [tag |-> "Update", table |-> Table(Some("Sch"), "Users"),
    sets |-> <<[col |-> ColumnRef(Nothing, "name"), to |-> Value(String("O'Brien"))]>>,
    where |-> Some(CondA)],
   Select(<<FieldCount>>, Table(Nothing, "T2"), Nothing, Nothing, Some(And(CondA, CondB)),
          Nothing, Nothing, Some([val |-> 10]))}

Idle == [phase |-> "idle", tree |-> [tag |-> "none"], given |-> [tag |-> "none"]]

CallInit ==
  /\ NoRender
  /\ NoWalk
  /\ caller = [p \in Callers |-> Idle]
  /\ stream = [s \in {stream_of(p) : p \in Callers} |-> ""]
  /\ log = {}

\* a caller calls to_sql_impl on a tree: the call's stream is constructed empty
CallRenderer(p, t) ==
  /\ caller[p].phase = "idle"
  /\ caller' = [caller EXCEPT ![p] = [phase |-> "called", tree |-> t, given |-> t]]
  /\ stream' = [stream EXCEPT ![stream_of(p)] = ""]
  /\ UNCHANGED <<log, render_vars, walk_vars>>

\* the call writes the text of its tree to its stream
BuildText(p) ==
  /\ caller[p].phase = "called"
  /\ stream' = [stream EXCEPT ![stream_of(p)] = @ \o to_sql_impl(caller[p].tree)]
  /\ caller' = [caller EXCEPT ![p].phase = "built"]
  /\ UNCHANGED <<log, render_vars, walk_vars>>

\* the call returns stream.str() and its stream is destroyed
ReturnText(p) ==
  /\ caller[p].phase = "built"
  /\ log' = log \cup {[given |-> caller[p].given, tree |-> caller[p].tree,
                      text |-> stream[stream_of(p)]]}
  /\ caller' = [caller EXCEPT ![p] = Idle]
  /\ stream' = [stream EXCEPT ![stream_of(p)] = ""]
  /\ UNCHANGED <<render_vars, walk_vars>>

CallNext ==
  \E p \in Callers :
    \/ \E t \in CallTrees : CallRenderer(p, t)
    \/ BuildText(p)
    \/ ReturnText(p)

CallSpec == CallInit /\ [][CallNext]_vars

(***************************************************************************)
(* Reading the produced text and the input tree (used by the properties).   *)
(***************************************************************************)
Done(f) == pc = "done" /\ fn = f

Rendered(tag) == Done("to_sql_impl") /\ arg.tag = tag

\* the positions at which sub occurs in str
Positions(str, sub) ==
  {i \in 1..(Len(str) - Len(sub) + 1) : SubSeq(str, i, i + Len(sub) - 1) = sub}

Contains(str, sub) == Positions(str, sub) # {}

StartsWith(str, sub) == Len(sub) <= Len(str) /\ SubSeq(str, 1, Len(sub)) = sub

EndsWith(str, sub) ==
  Len(sub) <= Len(str) /\ SubSeq(str, Len(str) - Len(sub) + 1, Len(str)) = sub

CharAt(str, i) == IF i \in 1..Len(str) THEN SubSeq(str, i, i) ELSE ""

\* every occurrence of name in str stands between two double quotes
QuotedEverywhere(str, name) ==
  \A i \in Positions(str, name) :
    CharAt(str, i - 1) = "\"" /\ CharAt(str, i + Len(name)) = "\""

DoubleQuoted(name) == "\"" \o name \o "\""

\* a list of texts separated by ", "
RECURSIVE Listed(_)
Listed(strs) ==
  IF Len(strs) = 0 THEN ""
  ELSE Listed(SubSeq(strs, 1, Len(strs) - 1))
       \o (IF Len(strs) > 1 THEN ", " ELSE "") \o strs[Len(strs)]

\* a string with every single quote written twice, character by character
RECURSIVE Doubled(_)
Doubled(str) ==
  IF Len(str) = 0 THEN ""
  ELSE (IF SubSeq(str, 1, 1) = "'" THEN "''" ELSE SubSeq(str, 1, 1))
       \o Doubled(SubSeq(str, 2, Len(str)))

SqlLiteral(str) == "'" \o Doubled(str) \o "'"

Range(seq) == {seq[i] : i \in 1..Len(seq)}

OptionalSet(o) == IF HasValue(o) THEN {ValueOf(o)} ELSE {}

\* the identifiers and the string literals held by an expression tree
ColumnOrValueNames(c) == IF c.tag = "Column" THEN {c.name} ELSE {}

ColumnOrValueAliases(c) == IF c.tag = "Column" THEN OptionalSet(c.alias) ELSE {}

ColumnOrValueLiterals(c) ==
  IF c.tag = "Value" /\ c.val.tag = "String" THEN {c.val.val} ELSE {}

RECURSIVE OperationLeaves(_)
OperationLeaves(op) ==
  CASE op.tag \in {"Column", "Value"} -> {op}
    [] op.tag = "Aggregation" ->
         IF op.val.tag = "Count"
         THEN OptionalSet(op.val.val)
         ELSE OperationLeaves(op.val.val)
    [] op.tag \in {"Coalesce", "Concat"} ->
         UNION {OperationLeaves(op.ops[i]) : i \in 1..Len(op.ops)}
    [] op.tag = "DatePlusDuration" -> OperationLeaves(op.date)
    [] OTHER ->
         UNION {OperationLeaves(op[f]) : f \in DOMAIN op \cap {"op1", "op2", "op3"}}

RECURSIVE ConditionLeaves(_)
ConditionLeaves(cond) ==
  LET c == cond.val IN
  CASE c.tag \in {"And", "Or"} -> ConditionLeaves(c.cond1) \cup ConditionLeaves(c.cond2)
    [] c.tag = "Not" -> ConditionLeaves(c.cond)
    [] c.tag \in {"In", "NotIn"} -> OperationLeaves(c.op) \cup Range(c.patterns)
    [] c.tag \in {"Like", "NotLike"} -> OperationLeaves(c.op) \cup {c.pattern}
    [] c.tag \in {"IsNull", "IsNotNull"} -> OperationLeaves(c.op)
    [] OTHER -> OperationLeaves(c.op1) \cup OperationLeaves(c.op2)

WhereLeaves(where) == IF HasValue(where) THEN ConditionLeaves(ValueOf(where)) ELSE {}

TableNamesOf(table) == {table.name} \cup OptionalSet(table.schema)

RECURSIVE SelectLeaves(_)
SelectLeaves(q) ==
  UNION {OperationLeaves(q.fields[i].val) : i \in 1..Len(q.fields)}
  \cup (IF q.table_or_query.tag = "SelectFrom" THEN SelectLeaves(q.table_or_query) ELSE {})
  \cup (IF HasValue(q.joins)
        THEN UNION {WhereLeaves(j.on)
                    \cup (IF j.table_or_query.tag = "SelectFrom"
                          THEN SelectLeaves(j.table_or_query) ELSE {})
                    : j \in Range(ValueOf(q.joins))}
        ELSE {})
  \cup WhereLeaves(q.where)
  \cup (IF HasValue(q.group_by) THEN Range(ValueOf(q.group_by).columns) ELSE {})
  \cup (IF HasValue(q.order_by)
        THEN {w.column : w \in Range(ValueOf(q.order_by).columns)} ELSE {})

\* the table and schema names and the AS names of the fields of a SELECT
RECURSIVE SelectNames(_)
SelectNames(q) ==
  UNION {OptionalSet(q.fields[i].as) : i \in 1..Len(q.fields)}
  \cup (IF q.table_or_query.tag = "SelectFrom"
        THEN SelectNames(q.table_or_query) ELSE TableNamesOf(q.table_or_query))
  \cup (IF HasValue(q.joins)
        THEN UNION {IF j.table_or_query.tag = "SelectFrom"
                    THEN SelectNames(j.table_or_query)
                    ELSE TableNamesOf(j.table_or_query)
                    : j \in Range(ValueOf(q.joins))}
        ELSE {})

\* the aliases given to the source and to the joined sources of a SELECT
RECURSIVE SelectAliases(_)
SelectAliases(q) ==
  OptionalSet(q.alias)
  \cup (IF q.table_or_query.tag = "SelectFrom" THEN SelectAliases(q.table_or_query) ELSE {})
  \cup (IF HasValue(q.joins)
        THEN UNION {{j.alias}
                    \cup (IF j.table_or_query.tag = "SelectFrom"
                          THEN SelectAliases(j.table_or_query) ELSE {})
                    : j \in Range(ValueOf(q.joins))}
        ELSE {})

\* the column and value leaves of the expressions of a statement
StatementLeaves(stmt) ==
  CASE stmt.tag \in {"CreateIndex", "DeleteFrom"} -> WhereLeaves(stmt.where)
    [] stmt.tag = "Update" ->
         WhereLeaves(stmt.where) \cup {set.to : set \in Range(stmt.sets)}
    [] stmt.tag = "SelectFrom" -> SelectLeaves(stmt)
    [] stmt.tag = "CreateAs" -> SelectLeaves(stmt.query)
    [] OTHER -> {}

\* the table, schema, column and index names of a statement tree (the columns
\* of a conflict target and of a foreign key, and the AS names, included)
Identifiers(stmt) ==
  UNION {ColumnOrValueNames(c) : c \in StatementLeaves(stmt)}
  \cup CASE stmt.tag = "CreateIndex" ->
              {stmt.name} \cup TableNamesOf(stmt.table) \cup Range(stmt.columns)
         [] stmt.tag = "CreateTable" ->
              TableNamesOf(stmt.table)
              \cup {col.name : col \in Range(stmt.columns)}
              \cup UNION {{ref.table, ref.column} :
                          ref \in UNION {OptionalSet(col.type.properties.foreign_key_reference)
                                         : col \in Range(stmt.columns)}}
         [] stmt.tag = "CreateAs" -> TableNamesOf(stmt.table_or_view) \cup SelectNames(stmt.query)
         [] stmt.tag \in {"DeleteFrom", "Drop"} -> TableNamesOf(stmt.table)
         [] stmt.tag = "Insert" ->
              TableNamesOf(stmt.table) \cup Range(stmt.columns)
              \cup (IF stmt.or_replace THEN Range(stmt.constraints) ELSE {})
         [] stmt.tag = "SelectFrom" -> SelectNames(stmt)
         [] stmt.tag = "Update" ->
              TableNamesOf(stmt.table) \cup {set.col.name : set \in Range(stmt.sets)}
         [] stmt.tag = "Write" -> TableNamesOf(stmt.table) \cup Range(stmt.columns)

\* the names a statement tree uses as table or column aliases and as enum types
Aliases(stmt) ==
  UNION {ColumnOrValueAliases(c) : c \in StatementLeaves(stmt)}
  \cup CASE stmt.tag = "SelectFrom" -> SelectAliases(stmt)
         [] stmt.tag = "CreateAs" -> SelectAliases(stmt.query)
         [] stmt.tag = "CreateTable" ->
              {col.type.name : col \in {c \in Range(stmt.columns) : c.type.tag = "Enum"}}
         [] OTHER -> {}

\* every string literal a statement tree embeds in its text
Literals(stmt) ==
  UNION {ColumnOrValueLiterals(c) : c \in StatementLeaves(stmt)}
  \cup (IF stmt.tag = "CreateTable"
        THEN UNION {Range(col.type.values)
                    : col \in {c \in Range(stmt.columns) : c.type.tag = "Enum"}}
        ELSE {})

(***************************************************************************)
(* Properties.                                                              *)
(***************************************************************************)

\* C1: a rendered statement ends with ";" when it is an Insert, Update,
\* DeleteFrom, CreateTable, CreateIndex, CreateAs, Drop or Write, and a rendered
\* SelectFrom (with every sub-query in it) holds no ";" at all; the SelectFrom
\* that is the body of a CreateAs adds none, so the only ";" of a CreateAs is
\* its last character.
C1_Terminated ==
  Done("to_sql_impl") =>
    /\ arg.tag # "SelectFrom" => EndsWith(ret, ";")
    /\ arg.tag = "SelectFrom" => ~Contains(ret, ";")
    /\ arg.tag = "CreateAs" => Positions(ret, ";") = {Len(ret)}

\* C2: every table, schema, column (conflict-target columns included) and
\* index name of the statement tree occurs in the rendered text wrapped in
\* double quotes, unchanged, and nowhere without them.
C2_IdentifiersQuoted ==
  Done("to_sql_impl") =>
    \A name \in Identifiers(arg) :
      /\ Contains(ret, DoubleQuoted(name))
      /\ QuotedEverywhere(ret, name)

\* C2, for the other names it lists: every name used as a table or column
\* alias or as an enum type name occurs wrapped in double quotes as well.
C2_AliasesQuoted ==
  Done("to_sql_impl") =>
    \A name \in Aliases(arg) :
      /\ Contains(ret, DoubleQuoted(name))
      /\ QuotedEverywhere(ret, name)

\* C3: every string literal of the statement tree (String values of conditions
\* and UPDATE sets, IN and LIKE patterns, enum values of a CREATE TYPE preamble)
\* occurs in the rendered text in single quotes with each inner single quote
\* written exactly twice and nothing else changed.
C3_LiteralsEscaped ==
  Done("to_sql_impl") =>
    \A str \in Literals(arg) : Contains(ret, SqlLiteral(str))

\* C4: an Insert with n columns renders the quoted columns in the statement's
\* order, then VALUES with exactly the placeholders $1 .. $n in that order
\* (for n = 0: "() VALUES ()").
C4_InsertPlaceholders ==
  Rendered("Insert") =>
    LET n == Len(arg.columns)
        columns == [k \in 1..n |-> DoubleQuoted(arg.columns[k])]
        placeholders == [k \in 1..n |-> "$" \o ToString(k)]
    IN  /\ Contains(ret, " (" \o Listed(columns) \o ") VALUES (" \o Listed(placeholders) \o ")")
        /\ Cardinality(Positions(ret, "$")) = n

C4_Witness ==
  /\ Rendered("Insert")
  /\ arg.columns = <<"name", "id">>
  /\ ~arg.or_replace
  /\ ret = "INSERT INTO \"Users\" (\"name\", \"id\") VALUES ($1, $2);"

\* C5: an upsert Insert (or_replace) renders ON CONFLICT (<quoted conflict
\* columns>) DO UPDATE SET "c"=excluded."c" for every inserted column c in
\* column order; without or_replace no ON CONFLICT clause is rendered.
C5_Upsert ==
  Rendered("Insert") =>
    IF arg.or_replace
    THEN Contains(ret,
           " ON CONFLICT ("
           \o Listed([k \in 1..Len(arg.constraints) |-> DoubleQuoted(arg.constraints[k])])
           \o ") DO UPDATE SET "
           \o Listed([k \in 1..Len(arg.columns) |->
                        DoubleQuoted(arg.columns[k]) \o "=excluded."
                        \o DoubleQuoted(arg.columns[k])])
           \o ";")
    ELSE ~Contains(ret, "ON CONFLICT")

\* the positions of sub in str, in increasing order
RECURSIVE Ascending(_)
Ascending(S) ==
  IF S = {} THEN <<>>
  ELSE LET m == CHOOSE x \in S : \A y \in S : x <= y
       IN  <<m>> \o Ascending(S \ {m})

Occurrences(str, sub) == Ascending(Positions(str, sub))

\* sub occurs in str at position i
At(str, i, sub) ==
  i >= 1 /\ i + Len(sub) - 1 <= Len(str) /\ SubSeq(str, i, i + Len(sub) - 1) = sub

\* sub ends in str right before position i
Before(str, i, sub) == At(str, i - Len(sub), sub)

BlockOpen == "DO $$ BEGIN "

BlockClose == "EXCEPTION WHEN duplicate_object THEN NULL; END $$;"

EnumColumns(stmt) == SelectSeq(stmt.columns, LAMBDA col : col.type.tag = "Enum")

PrimaryColumns(stmt) == SelectSeq(stmt.columns, LAMBDA col : col.type.properties.primary)

\* C6: a CreateTable renders one CREATE TYPE <name> AS ENUM ( preamble per
\* enum-typed column, in column order, all before the CREATE TABLE text; every
\* preamble stands in a DO $$ BEGIN ... EXCEPTION WHEN duplicate_object THEN
\* NULL; END $$; block exactly when if_not_exists is set, IF NOT EXISTS
\* follows CREATE TABLE exactly when if_not_exists is set, and without an enum
\* column the text starts with CREATE TABLE.
C6_EnumPreambles ==
  Rendered("CreateTable") =>
    LET enums == EnumColumns(arg)
        types == Occurrences(ret, "CREATE TYPE ")
        closes == Occurrences(ret, BlockClose)
        tables == Occurrences(ret, "CREATE TABLE ")
    IN  /\ Len(types) = Len(enums)
        /\ Len(tables) = 1
        /\ \A i \in 1..Len(types) :
             /\ At(ret, types[i], "CREATE TYPE " \o enums[i].type.name \o " AS ENUM (")
             /\ types[i] < tables[1]
             /\ Before(ret, types[i], BlockOpen) <=> arg.if_not_exists
        /\ Len(closes) = (IF arg.if_not_exists THEN Len(enums) ELSE 0)
        /\ \A i \in 1..Len(closes) :
             /\ types[i] < closes[i]
             /\ closes[i] < (IF i < Len(types) THEN types[i + 1] ELSE tables[1])
        /\ ~arg.if_not_exists => ~Contains(ret, "DO $$") /\ ~Contains(ret, "EXCEPTION")
        /\ At(ret, tables[1], "CREATE TABLE IF NOT EXISTS ") <=> arg.if_not_exists
        /\ Len(enums) = 0 => StartsWith(ret, "CREATE TABLE")

C6_Witness ==
  /\ Rendered("CreateTable")
  /\ arg.if_not_exists
  /\ Len(arg.columns) = 2
  /\ arg.columns[1].type.tag = "Enum" /\ arg.columns[1].type.name = "Size"
  /\ arg.columns[2].type.tag = "Enum" /\ arg.columns[2].type.name = "Mood"
  /\ StartsWith(ret,
       "DO $$ BEGIN CREATE TYPE Size AS ENUM ('it's'); EXCEPTION WHEN duplicate_object THEN NULL; END $$;"
       \o "DO $$ BEGIN CREATE TYPE Mood AS ENUM ('happy', 'sad'); EXCEPTION WHEN duplicate_object THEN NULL; END $$;"
       \o "CREATE TABLE IF NOT EXISTS ")

\* C7: a CreateTable renders a PRIMARY KEY (...) clause exactly when some column
\* is primary; the clause lists exactly the primary columns, quoted, in column
\* order, and stands after all column definitions, closing the column list.
C7_PrimaryKey ==
  Rendered("CreateTable") =>
    LET keys == PrimaryColumns(arg)
        clauses == Occurrences(ret, "PRIMARY KEY")
        heads == UNION {Positions(ret, DoubleQuoted(name) \o " ") : name \in ColumnNames}
    IN  /\ Len(clauses) = (IF Len(keys) > 0 THEN 1 ELSE 0)
        /\ Len(keys) > 0 =>
             /\ EndsWith(ret,
                  ", PRIMARY KEY ("
                  \o Listed([k \in 1..Len(keys) |-> DoubleQuoted(keys[k].name)])
                  \o "));")
             /\ Cardinality(heads) = Len(arg.columns)
             /\ \A h \in heads : h < clauses[1]

C7_Witness ==
  /\ Rendered("CreateTable")
  /\ Len(arg.columns) = 2
  /\ arg.columns[1].name = "name" /\ arg.columns[1].type.properties.primary
  /\ arg.columns[2].name = "id" /\ arg.columns[2].type.properties.primary
  /\ EndsWith(ret, "\"id\" INTEGER NOT NULL, PRIMARY KEY (\"name\", \"id\"));")

\* C9: And(A,B) renders as "(<A>) AND (<B>)", Or(A,B) as "(<A>) OR (<B>)" and
\* Not(A) as "NOT (<A>)", the parentheses around every child whatever its kind,
\* so that nested logical nodes are never flattened.
C9_LogicalParenthesized ==
  Done("condition_to_sql") =>
    LET c == arg.val IN
    /\ c.tag = "And" =>
         ret = "(" \o condition_to_sql(c.cond1) \o ") AND (" \o condition_to_sql(c.cond2) \o ")"
    /\ c.tag = "Or" =>
         ret = "(" \o condition_to_sql(c.cond1) \o ") OR (" \o condition_to_sql(c.cond2) \o ")"
    /\ c.tag = "Not" => ret = "NOT (" \o condition_to_sql(c.cond) \o ")"
    /\ arg = And(And(CondA, CondB), CondA) =>
         ret = "((\"id\" = 1) AND (t1.\"name\" LIKE 'O''Brien')) AND (\"id\" = 1)"
    /\ arg = Or(CondB, Not(CondA)) =>
         ret = "(t1.\"name\" LIKE 'O''Brien') OR (NOT (\"id\" = 1))"
    /\ arg = Not(Not(CondA)) => ret = "NOT (NOT (\"id\" = 1))"

C9_Witness ==
  /\ Done("condition_to_sql")
  /\ arg = And(And(CondA, CondB), CondA)
  /\ ret = "((\"id\" = 1) AND (t1.\"name\" LIKE 'O''Brien')) AND (\"id\" = 1)"

\* C10: a Count without val renders "COUNT(*)" whatever distinct is; with a val
\* it renders "COUNT(DISTINCT <col>)" when distinct is set and "COUNT(<col>)"
\* when it is not.
C10_Count ==
  Done("aggregation_to_sql") /\ arg.val.tag = "Count" =>
    LET count == arg.val IN
    /\ ~HasValue(count.val) => ret = "COUNT(*)"
    /\ HasValue(count.val) /\ count.distinct =>
         ret = "COUNT(DISTINCT " \o column_or_value_to_sql(ValueOf(count.val)) \o ")"
    /\ HasValue(count.val) /\ ~count.distinct =>
         ret = "COUNT(" \o column_or_value_to_sql(ValueOf(count.val)) \o ")"
    /\ count = Count(Some(ColumnRef(Nothing, "id")), TRUE) => ret = "COUNT(DISTINCT \"id\")"
    /\ count = Count(Some(ColumnRef(Nothing, "id")), FALSE) => ret = "COUNT(\"id\")"

C10_Witness ==
  /\ Done("aggregation_to_sql")
  /\ arg.val = Count(Nothing, TRUE)
  /\ ret = "COUNT(*)"

\* the number of parentheses open before position i of str
Depth(str, i) ==
  Cardinality({j \in 1..(i - 1) : SubSeq(str, j, j) = "("})
  - Cardinality({j \in 1..(i - 1) : SubSeq(str, j, j) = ")"})

\* the positions of sub in str outside every parenthesis: at this level of a
\* SELECT, not in one of its sub-queries
TopPositions(str, sub) == {i \in Positions(str, sub) : Depth(str, i) = 0}

\* the keyword at position i is followed by a space and then by its operand
HasOperand(str, i, keyword) ==
  /\ CharAt(str, i + Len(keyword)) = " "
  /\ CharAt(str, i + Len(keyword) + 1) \notin {"", " "}

\* the alias of the source: " <alias>" before a space or the end of the text
AliasPositions(str, alias) ==
  IF HasValue(alias)
  THEN {i \in TopPositions(str, " " \o ValueOf(alias)) :
          CharAt(str, i + 1 + Len(ValueOf(alias))) \in {"", " "}}
  ELSE {}

First(S) == IF S = {} THEN {} ELSE {CHOOSE x \in S : \A y \in S : x <= y}

\* the clauses of a SELECT in the order in which they have to stand
ClausePositions(str, stmt) ==
  <<TopPositions(str, "SELECT "), TopPositions(str, " FROM "),
    First(AliasPositions(str, stmt.alias)), TopPositions(str, " JOIN "),
    TopPositions(str, "WHERE"), TopPositions(str, "GROUP BY"),
    TopPositions(str, "ORDER BY"), TopPositions(str, "LIMIT")>>

InFixedOrder(clauses) ==
  \A i, j \in 1..Len(clauses) :
    i < j => \A a \in clauses[i], b \in clauses[j] : a < b

\* each keyword stands at this level exactly when its field is present
KeywordsFollowFields(str, stmt) ==
  /\ Cardinality(TopPositions(str, "WHERE")) = (IF HasValue(stmt.where) THEN 1 ELSE 0)
  /\ Cardinality(TopPositions(str, "GROUP BY")) = (IF HasValue(stmt.group_by) THEN 1 ELSE 0)
  /\ Cardinality(TopPositions(str, "ORDER BY")) = (IF HasValue(stmt.order_by) THEN 1 ELSE 0)
  /\ Cardinality(TopPositions(str, "LIMIT")) = (IF HasValue(stmt.limit) THEN 1 ELSE 0)
  /\ Cardinality(TopPositions(str, " FROM ")) = 1
  /\ HasValue(stmt.alias) => AliasPositions(str, stmt.alias) # {}
  /\ Cardinality(TopPositions(str, " JOIN "))
       = (IF HasValue(stmt.joins) THEN Len(ValueOf(stmt.joins)) ELSE 0)

\* C8 as claimed: each of WHERE, GROUP BY, ORDER BY and LIMIT stands in the text
\* of a SelectFrom, at its own level, exactly when the field is present, never
\* with nothing after it, and the clauses stand in the order fields, FROM
\* source, alias, joins, WHERE, GROUP BY, ORDER BY, LIMIT.
C8_NoDanglingKeyword ==
  Rendered("SelectFrom") =>
    /\ KeywordsFollowFields(ret, arg)
    /\ \A keyword \in {"WHERE", "GROUP BY", "ORDER BY", "LIMIT"} :
         \A i \in TopPositions(ret, keyword) : HasOperand(ret, i, keyword)
    /\ InFixedOrder(ClausePositions(ret, arg))

\* C8 as amended: each keyword stands at its own level exactly when the field
\* is present and the clauses stand in the fixed order; WHERE and LIMIT are
\* always followed by their operand, GROUP BY and ORDER BY are followed by
\* their column list exactly when that list is not empty (a present clause
\* with an empty list leaves the bare keyword).
C8_Clauses ==
  Rendered("SelectFrom") =>
    /\ KeywordsFollowFields(ret, arg)
    /\ \A i \in TopPositions(ret, "WHERE") : HasOperand(ret, i, "WHERE")
    /\ \A i \in TopPositions(ret, "LIMIT") : HasOperand(ret, i, "LIMIT")
    /\ \A i \in TopPositions(ret, "GROUP BY") :
         HasOperand(ret, i, "GROUP BY") <=> Len(ValueOf(arg.group_by).columns) > 0
    /\ \A i \in TopPositions(ret, "ORDER BY") :
         HasOperand(ret, i, "ORDER BY") <=> Len(ValueOf(arg.order_by).columns) > 0
    /\ InFixedOrder(ClausePositions(ret, arg))

C8_Witness ==
  /\ Rendered("SelectFrom")
  /\ arg.table_or_query.tag = "SelectFrom"
  /\ HasValue(arg.alias)
  /\ HasValue(arg.joins) /\ Len(ValueOf(arg.joins)) = 2
  /\ HasValue(arg.group_by) /\ HasValue(arg.order_by)
  /\ EndsWith(ret,
       ") t1 INNER JOIN \"T2\" t2 ON 1 = 1 LEFT JOIN (SELECT \"id\" FROM \"T2\" WHERE \"id\" = 1 "
       \o "GROUP BY \"id\" ORDER BY \"id\" LIMIT 5) t1 ON t1.\"name\" LIKE 'O''Brien' "
       \o "WHERE t1.\"name\" LIKE 'O''Brien' GROUP BY \"id\" ORDER BY \"name\" DESC LIMIT 10")

(***************************************************************************)
(* Types (C11, C18).                                                        *)
(***************************************************************************)
IntegerTags == {"Int8", "Int16", "Int32", "Int64", "UInt8", "UInt16", "UInt32", "UInt64"}

\* C11: type_to_sql maps every Type variant to one fixed keyword, whatever the
\* variant's Properties: Int8, Int16, UInt8 and UInt16 give SMALLINT, Int32 and
\* UInt32 give INTEGER, Int64 and UInt64 give BIGINT, Float32 and Float64 give
\* NUMERIC, Unknown gives TEXT, Dynamic gives its type name verbatim and Enum
\* gives its type name.
C11_TypeKeywords ==
  Done("type_to_sql") =>
    /\ arg.tag \in {"Int8", "Int16", "UInt8", "UInt16"} => ret = "SMALLINT"
    /\ arg.tag \in {"Int32", "UInt32"} => ret = "INTEGER"
    /\ arg.tag \in {"Int64", "UInt64"} => ret = "BIGINT"
    /\ arg.tag \in {"Float32", "Float64"} => ret = "NUMERIC"
    /\ arg.tag = "Unknown" => ret = "TEXT"
    /\ arg.tag = "Dynamic" => ret = arg.type_name
    /\ arg.tag = "Enum" => ret = arg.name
    /\ \A p \in PropertySets : type_to_sql([arg EXCEPT !.properties = p]) = ret
    /\ \A t \in TypeInputs :
         t.tag = arg.tag /\ t.tag \notin {"Dynamic", "Enum", "VarChar"}
           => type_to_sql(t) = ret

C11_Witness ==
  /\ Done("type_to_sql")
  /\ arg.tag = "UInt16"
  /\ arg.properties.primary /\ arg.properties.auto_incr
  /\ ret = "SMALLINT"

\* the greatest value of a two's complement or unsigned integer of the given
\* width is 2^UpperExponent - 1
UpperExponent(bits, signed) == IF signed THEN bits - 1 ELSE bits

\* the least value is -(2^LowerExponent), or 0 for an unsigned integer (-1 here)
LowerExponent(bits, signed) == IF signed THEN bits - 1 ELSE -1

IntegerSigned(tag) == tag \in {"Int8", "Int16", "Int32", "Int64"}

IntegerBits(tag) ==
  CASE tag \in {"Int8", "UInt8"} -> 8
    [] tag \in {"Int16", "UInt16"} -> 16
    [] tag \in {"Int32", "UInt32"} -> 32
    [] tag \in {"Int64", "UInt64"} -> 64

\* PostgreSQL's integer types are signed: smallint 2 bytes, integer 4, bigint 8
SqlIntegerBits(keyword) ==
  CASE keyword = "SMALLINT" -> 16
    [] keyword = "INTEGER" -> 32
    [] keyword = "BIGINT" -> 64

\* C18: for every integer Type variant, the range of the SQL integer type that
\* type_to_sql chooses contains the variant's whole range: its greatest value
\* is not below the variant's greatest and its least not above the variant's
\* least.
C18_RangeContained ==
  Done("type_to_sql") /\ arg.tag \in IntegerTags =>
    /\ ret \in {"SMALLINT", "INTEGER", "BIGINT"}
    /\ UpperExponent(IntegerBits(arg.tag), IntegerSigned(arg.tag))
         <= UpperExponent(SqlIntegerBits(ret), TRUE)
    /\ LowerExponent(IntegerBits(arg.tag), IntegerSigned(arg.tag))
         <= LowerExponent(SqlIntegerBits(ret), TRUE)

(***************************************************************************)
(* Bulk load (C12).                                                         *)
(***************************************************************************)
\* the text after the column list of a COPY: tab delimiter, ESC for NULL and
\* BEL as the CSV quote
CopyFraming == " FROM STDIN WITH DELIMITER '\t' NULL '<ESC>' CSV QUOTE '<BEL>';"

\* C12: for a Write statement the text is COPY "<schema>"."<table>"(<quoted
\* columns in order>) FROM STDIN WITH DELIMITER '<tab>' NULL '<ESC>' CSV QUOTE
\* '<BEL>'; where the schema is the statement's when present and "public" when
\* absent: the text is always schema-qualified and the three framing
\* characters are the same for every input.
C12_Copy ==
  Rendered("Write") =>
    /\ ret = "COPY "
               \o (IF arg.table.schema = <<>> THEN "\"public\""
                   ELSE DoubleQuoted(arg.table.schema[1]))
               \o "." \o DoubleQuoted(arg.table.name)
               \o "(" \o Listed([i \in 1..Len(arg.columns) |-> DoubleQuoted(arg.columns[i])])
               \o ")" \o CopyFraming
    /\ EndsWith(ret, CopyFraming)
    /\ Contains(ret, "\".\"")

C12_Witness ==
  /\ Rendered("Write")
  /\ arg.table.schema = <<>>
  /\ ret = "COPY \"public\".\"Users\"(\"id\", \"name\")" \o CopyFraming

(***************************************************************************)
(* Arithmetic (C14).                                                        *)
(***************************************************************************)
ArithmeticSymbol(tag) ==
  CASE tag = "Plus" -> "+"
    [] tag = "Minus" -> "-"
    [] tag = "Multiplies" -> "*"
    [] tag = "Divides" -> "/"

\* the text is "(<a>) <op> (<b>)" for some operator text <op>
OperandsParenthesized(str, a, b) ==
  /\ StartsWith(str, "(" \o a \o ") ")
  /\ EndsWith(str, " (" \o b \o ")")
  /\ Len(str) > Len(a) + Len(b) + 6

\* C14 as claimed: for every binary arithmetic Operation (Plus, Minus,
\* Multiplies, Divides, Mod) the text is "(<a>) <op> (<b>)", each operand's
\* rendering in its own parentheses, whatever the kind or depth of the operands.
C14_ArithmeticParenthesized ==
  Done("operation_to_sql") /\ arg.tag \in ArithmeticTags =>
    OperandsParenthesized(ret, operation_to_sql(arg.op1), operation_to_sql(arg.op2))

\* C14 as amended: Plus, Minus, Multiplies and Divides give "(<a>) + (<b>)",
\* "(<a>) - (<b>)", "(<a>) * (<b>)" and "(<a>) / (<b>)", each operand's rendering
\* in its own parentheses whatever its kind or depth; Mod gives the function
\* call "mod(<a>, <b>)", whose operands are delimited by the call's parentheses
\* and comma.
C14_Arithmetic ==
  Done("operation_to_sql") /\ arg.tag \in ArithmeticTags =>
    LET a == operation_to_sql(arg.op1)
        b == operation_to_sql(arg.op2)
    IN  IF arg.tag = "Mod"
        THEN ret = "mod(" \o a \o ", " \o b \o ")"
        ELSE /\ ret = "(" \o a \o ") " \o ArithmeticSymbol(arg.tag) \o " (" \o b \o ")"
             /\ OperandsParenthesized(ret, a, b)

\* (id - abs(1)) * id, and mod nested under minus
C14_Witness ==
  /\ Done("operation_to_sql")
  /\ arg.tag = "Multiplies"
  /\ arg.op1.tag = "Minus"
  /\ ret = "((\"id\") - (abs(1))) * (\"id\")"

(***************************************************************************)
(* Joins (C16).                                                             *)
(***************************************************************************)
\* the join kind in upper case, its underscore written as a space
HowKeyword(how) ==
  CASE how = "inner_join" -> "INNER JOIN"
    [] how = "left_join" -> "LEFT JOIN"
    [] how = "right_join" -> "RIGHT JOIN"
    [] how = "full_join" -> "FULL JOIN"

\* "<HOW> <table-or-(subquery)> <alias> ON <cond>", ON 1 = 1 without a condition
JoinClause(j) ==
  HowKeyword(j.how) \o " "
  \o (IF j.table_or_query.tag = "SelectFrom"
      THEN "(" \o select_from_to_sql(j.table_or_query) \o ")"
      ELSE table_to_sql(j.table_or_query))
  \o " " \o j.alias \o " ON "
  \o (IF j.on = <<>> THEN "1 = 1" ELSE condition_to_sql(j.on[1]))

\* the clauses of a join list in list order, one space between two of them
RECURSIVE JoinClauses(_)
JoinClauses(joins) ==
  IF Len(joins) = 0 THEN ""
  ELSE JoinClauses(SubSeq(joins, 1, Len(joins) - 1))
       \o (IF Len(joins) > 1 THEN " " ELSE "") \o JoinClause(joins[Len(joins)])

\* the text of a SelectFrom up to its joins
SelectHead(stmt) ==
  "SELECT " \o Listed([i \in 1..Len(stmt.fields) |-> field_to_str(stmt.fields[i])])
  \o " FROM "
  \o (IF stmt.table_or_query.tag = "SelectFrom"
      THEN "(" \o select_from_to_sql(stmt.table_or_query) \o ")"
      ELSE table_to_sql(stmt.table_or_query))
  \o (IF stmt.alias = <<>> THEN "" ELSE " " \o stmt.alias[1])

\* C16: for a SelectFrom with a join list, the joins stand after the source and
\* its alias in list order, one space between two of them, each as "<HOW>
\* <table-or-(subquery)> <alias> ON <cond>" with <HOW> the join kind in upper
\* case and its underscore a space; a join without a condition gives ON 1 = 1,
\* so the text holds one ON per join.
C16_Joins ==
  Rendered("SelectFrom") /\ arg.joins # <<>> =>
    LET joins == arg.joins[1]
    IN  /\ StartsWith(ret, SelectHead(arg) \o " " \o JoinClauses(joins))
        /\ Cardinality(TopPositions(ret, " ON ")) = Len(joins)
        /\ Cardinality(TopPositions(ret, " JOIN ")) = Len(joins)
        /\ \A i \in 1..Len(joins) :
             joins[i].on = <<>> => Contains(JoinClause(joins[i]), " ON 1 = 1")
        /\ Len(joins) > 0 /\ arg.where = <<>> /\ arg.group_by = <<>>
             /\ arg.order_by = <<>> /\ arg.limit = <<>>
             => ret = SelectHead(arg) \o " " \o JoinClauses(joins)

C16_Witness ==
  /\ Rendered("SelectFrom")
  /\ arg.joins # <<>> /\ Len(arg.joins[1]) = 2
  /\ arg.joins[1][2].on = <<>>
  /\ ret = "SELECT \"id\" FROM \"Users\" RIGHT JOIN (SELECT \"id\" FROM \"T2\") t2 ON \"id\" = 1 "
             \o "FULL JOIN \"Sch\".\"Users\" t1 ON 1 = 1"

(***************************************************************************)
(* Totality (C15).                                                          *)
(***************************************************************************)
\* the text an empty list leaves in each construct that holds a list
EmptyListRendering ==
  /\ Rendered("SelectFrom") /\ arg.fields = <<>> => StartsWith(ret, "SELECT  FROM ")
  /\ Rendered("Insert") /\ arg.columns = <<>> => Contains(ret, " () VALUES ()")
  /\ Rendered("Insert") /\ arg.or_replace /\ arg.constraints = <<>>
       => Contains(ret, " ON CONFLICT () DO UPDATE SET ")
  /\ Rendered("CreateTable") /\ arg.columns = <<>> => EndsWith(ret, " ();")
  /\ Rendered("CreateIndex") /\ arg.columns = <<>> /\ arg.where = <<>>
       => EndsWith(ret, "();")
  /\ Rendered("Update") /\ arg.sets = <<>> => Contains(ret, " SET ")
  /\ Rendered("Write") /\ arg.columns = <<>> => Contains(ret, "() FROM STDIN")
  /\ Done("condition_to_sql") /\ arg.val.tag = "In" /\ arg.val.patterns = <<>>
       => EndsWith(ret, " IN ()")
  /\ Done("condition_to_sql") /\ arg.val.tag = "NotIn" /\ arg.val.patterns = <<>>
       => EndsWith(ret, " NOT IN ()")
  /\ Done("operation_to_sql") /\ arg.tag = "Coalesce" /\ arg.ops = <<>>
       => ret = "coalesce()"
  /\ Done("operation_to_sql") /\ arg.tag = "Concat" /\ arg.ops = <<>> => ret = "()"
  /\ Done("operation_to_sql") /\ arg.tag = "DatePlusDuration" /\ arg.durations = <<>>
       => ret = operation_to_sql(arg.date) \o " + "

\* the renderer the caller names is defined on the tree it holds and gives a text
Defined ==
  \/ fn = "to_sql_impl"
       /\ arg.tag \in {"CreateIndex", "CreateTable", "CreateAs", "DeleteFrom", "Drop",
                        "Insert", "SelectFrom", "Update", "Write"}
       /\ to_sql_impl(arg) \in STRING
  \/ fn = "condition_to_sql" /\ condition_to_sql(arg) \in STRING
  \/ fn = "operation_to_sql" /\ operation_to_sql(arg) \in STRING
  \/ fn = "aggregation_to_sql" /\ aggregation_to_sql(arg) \in STRING
  \/ fn = "type_to_sql" /\ type_to_sql(arg) \in STRING

\* C15: every renderer is total: on any well-formed tree, also one with an
\* empty list (no select fields, insert columns, table columns, index columns,
\* IN patterns, Coalesce or Concat operands, durations), the call is defined
\* and returns a text, there is no state other than called and returned, and
\* an empty list leaves a degenerate but present construct such as empty
\* parentheses.
C15_Total ==
  /\ pc \in {"call", "done"}
  /\ pc = "call" => Defined
  /\ pc = "done" => ret \in STRING /\ Len(ret) > 0
  /\ pc = "done" => EmptyListRendering

C15_Witness ==
  /\ Rendered("Insert")
  /\ arg.columns = <<>> /\ arg.constraints = <<>>
  /\ ret = "INSERT INTO \"Users\" () VALUES () ON CONFLICT () DO UPDATE SET ;"

(***************************************************************************)
(* Recursion (C17).  The tree as the data model gives it: the nodes are the *)
(* Operation, Aggregation, Condition, SelectFrom, Join and table-or-query   *)
(* values, each named here by the renderer that takes it.                   *)
(***************************************************************************)
\* the children of a node: the nodes its fields hold
Children(kind, node) ==
  CASE kind = "operation_to_sql" ->
         IF node.tag = "Aggregation"
         THEN {Callee("aggregation_to_sql", node, "Aggregation")}
         ELSE {Callee("operation_to_sql", node[f], f) :
                 f \in DOMAIN node \cap {"op1", "op2", "op3", "date"}}
              \cup (IF "ops" \in DOMAIN node
                    THEN {Callee("operation_to_sql", node.ops[i], Indexed("ops", i)) :
                            i \in 1..Len(node.ops)}
                    ELSE {})
    [] kind = "aggregation_to_sql" ->
         IF node.val.tag = "Count" THEN {}
         ELSE {Callee("operation_to_sql", node.val.val, "val")}
    [] kind = "condition_to_sql" ->
         {Callee("condition_to_sql", node.val[f], f) :
            f \in DOMAIN node.val \cap {"cond1", "cond2", "cond"}}
         \cup {Callee("operation_to_sql", node.val[f], f) :
                 f \in DOMAIN node.val \cap {"op1", "op2", "op"}}
    [] kind = "select_from_to_sql" ->
         {Callee("operation_to_sql", node.fields[i].val, Indexed("fields", i)) :
            i \in 1..Len(node.fields)}
         \cup {Callee("table_or_query_to_sql", node.table_or_query, "table_or_query")}
         \cup (IF node.joins = <<>> THEN {}
               ELSE {Callee("join_to_sql", node.joins[1][i], Indexed("joins", i)) :
                       i \in 1..Len(node.joins[1])})
         \cup {Callee("condition_to_sql", w[1], "where") : w \in {node.where} \ {<<>>}}
    [] kind = "join_to_sql" ->
         {Callee("table_or_query_to_sql", node.table_or_query, "table_or_query")}
         \cup {Callee("condition_to_sql", on[1], "on") : on \in {node.on} \ {<<>>}}
    [] kind = "table_or_query_to_sql" ->
         IF node.tag = "SelectFrom" THEN {Callee("select_from_to_sql", node, "query")}
         ELSE {}

\* the paths of all nodes of the tree under a node
RECURSIVE NodePaths(_, _, _)
NodePaths(kind, node, path) ==
  {path} \cup UNION {NodePaths(c.fn, c.node, Append(path, c.step)) :
                       c \in Children(kind, node)}

\* the number of nodes on the longest way from a node down to a leaf
RECURSIVE TreeDepth(_, _)
TreeDepth(kind, node) ==
  LET below == {TreeDepth(c.fn, c.node) : c \in Children(kind, node)}
  IN  1 + (IF below = {} THEN 0 ELSE CHOOSE d \in below : \A e \in below : e <= d)

\* every active call but the first is on a child of the node of its caller
OnStrictChildren ==
  \A i \in 2..Len(frames) :
    \E c \in Children(frames[i - 1].fn, frames[i - 1].node) :
      /\ c.fn = frames[i].fn
      /\ c.node = frames[i].node
      /\ frames[i].path = Append(frames[i - 1].path, c.step)

Walked == root.fn # "none" /\ frames = <<>>

\* C17: the recursion among operation_to_sql, aggregation_to_sql,
\* condition_to_sql, select_from_to_sql, join_to_sql and table_or_query_to_sql
\* on a finite tree terminates; every call but the first is on a child of its
\* caller's node; no node is visited twice and, at the end, every node has been
\* visited once; the stack is never higher than the tree is deep and its
\* greatest height is the depth of the tree.
C17_Recursion ==
  /\ <>[](frames = <<>>)
  /\ [](OnStrictChildren)
  /\ [](\A path \in DOMAIN visits : visits[path] = 1)
  /\ [](root.fn # "none" => Len(frames) <= TreeDepth(root.fn, root.node))
  /\ [](Walked => DOMAIN visits = NodePaths(root.fn, root.node, <<>>))
  /\ [](Walked => deepest = TreeDepth(root.fn, root.node))

\* a SelectFrom over a sub-query, joined to a sub-query: five calls deep
C17_Witness ==
  /\ Walked
  /\ root.fn = "select_from_to_sql"
  /\ root.node.table_or_query.tag = "SelectFrom"
  /\ HasValue(root.node.joins) /\ Len(ValueOf(root.node.joins)) = 2
  /\ deepest = 6
  /\ Cardinality(DOMAIN visits) >= 20

(***************************************************************************)
(* Purity (C13).                                                            *)
(***************************************************************************)
\* a step of one caller leaves every other caller's call and stream as they are
OwnLocalsOnly ==
  \A p \in Callers :
    caller'[p] # caller[p] =>
      \A q \in Callers \ {p} :
        caller'[q] = caller[q] /\ stream'[stream_of(q)] = stream[stream_of(q)]

=============================================================================
